---------------------------- MODULE Spec2Model ----------------------------
(***************************************************************************)
(* A model of the SMIV multi slice/time viewer (create_viewer in           *)
(* viewer_multi_slicetime.py) and of the image and mask geometry it calls  *)
(* (image_processing.py, overlay_utils.py).                                *)
(*                                                                         *)
(* The closure state of create_viewer is three records: `state` (the       *)
(* state dict), `settings` (the Tk variables of the settings dict) and     *)
(* `ui` (the widgets the handlers read and write).  Every handler is an    *)
(* operator from such a triple (a "world" record g) to the triple it       *)
(* leaves behind; g.exc tells whether the handler left by an exception,    *)
(* which Tk's callback wrapper reports and swallows.                       *)
(*                                                                         *)
(* Floats are fixed-point integers: zoom_factor in units of 1/ZoomUnit,    *)
(* pan_x and pan_y in units of 1/PanUnit of a pixel.                       *)
(***************************************************************************)
EXTENDS Integers, Sequences, FiniteSets, TLC

VARIABLES
    state,       \* the state dict of create_viewer
    settings,    \* the Tk variables of the settings dict
    ui,          \* the widgets: check-button variables, sliders, image label
    disk,        \* the session preset store under ~/.smiv
    history,     \* what has happened so far (not program state)
    last_event,  \* the handler that ran last and how it ended (not program state)
    call,        \* the call of a module function under examination: its
                 \* arguments and, once it has run, what it returned
    logic        \* a MultiSliceTimeLogic object (viewer_multi_logic.py)

vars == <<state, settings, ui, disk, history, last_event, call, logic>>

---------------------------------------------------------------------------
(* Bounds of the model *)

\* the Z and T axes of the masks get_mask_slice is called on, and how far
\* the indices of the calls go below 0 and above the axes
MaskZ == 2
MaskT == 3
MaxIndex == 2

\* the number of files in the folder of a DICOM series
SeriesLen == 2

\* the pixels of a slice that is normalized: NormW values of -1..MaxNorm
NormW == 3
MaxNorm == 1

\* window/level: centers, widths and pixel values are counted in 1/WlUnit;
\* centers go from -MaxCenter to MaxCenter, widths from -WlUnit to MaxWidth,
\* pixel values from -MaxPixel to MaxPixel
WlUnit == 2
MaxCenter == 2
MaxWidth == 6
MaxPixel == 3
\* pixels of the arrays load_dicom is called with, and their largest value
RawLen == 2
MaxRaw == 256
\* sides of the frames apply_zoom_and_pan is called with
MaxSide == 3
\* pixels the zoom centre is moved by in those calls
CallPan == 2

\* fixed-point units in 0.5 of zoom factor (ZoomUnit is twice this)
ZoomHalf == 5
\* fixed-point units in one pixel of pan
PanUnit == 2
\* number of entries of file_paths
NumFiles == 2
\* while viewing, the wheel is turned only while zoom_factor stays within
\* MaxWheel fixed-point units of 1.0
MaxWheel == 3
\* the same in the overlay sessions
OverlayWheel == 2
\* a drag is followed only while |pan| stays within MaxPan pixels
MaxPan == 1
\* height and width of the planes the loaders return
ImgH == 3
ImgW == 4
\* width and height of the image frame once the window is laid out
FrameW == 7
FrameH == 5
\* the pointer is pressed and moved between (0, 0) and (DragX, -DragY)
DragX == 1
DragY == 1

ZoomUnit == 2 * ZoomHalf

---------------------------------------------------------------------------
(* Arithmetic *)

Max(a, b) == IF a >= b THEN a ELSE b
Min(a, b) == IF a <= b THEN a ELSE b
Abs(a) == IF a < 0 THEN -a ELSE a

\* Python's round() of the rational n/d (d > 0): to nearest, ties to even
RoundHalfEven(n, d) ==
    LET q == n \div d
        r == n % d
    IN  IF 2 * r < d THEN q
        ELSE IF 2 * r > d THEN q + 1
        ELSE IF q % 2 = 0 THEN q ELSE q + 1

\* the float quotient n/d (d > 0) kept to the nearest fixed-point unit
FloatDiv(n, d) == RoundHalfEven(n, d)

---------------------------------------------------------------------------
(* image_processing.py: crop geometry *)

\* the mutant of CropRect used to test claims about the crop rectangle:
\* the out-of-bounds shift of x is dropped
CropRect_noshift(h, w, zoom_factor, pan_x, pan_y) ==
    LET crop_w == Max(1, Min(w, RoundHalfEven(w * ZoomUnit, zoom_factor)))
        crop_h == Max(1, Min(h, RoundHalfEven(h * ZoomUnit, zoom_factor)))
        cx == RoundHalfEven(w * PanUnit + 2 * pan_x, 2 * PanUnit)
        cy == RoundHalfEven(h * PanUnit + 2 * pan_y, 2 * PanUnit)
        x1a == cx - (crop_w \div 2)
        y1a == cy - (crop_h \div 2)
        x2a == x1a + crop_w
        y2a == y1a + crop_h
        y1b == IF y1a < 0 THEN 0 ELSE y1a
        y2b == IF y1a < 0 THEN crop_h ELSE y2a
        y2d == IF y2b > h THEN h ELSE y2b
        y1d == IF y2b > h THEN h - crop_h ELSE y1b
        x1e == Max(0, Min(x1a, w - 1))
        y1e == Max(0, Min(y1d, h - 1))
        x2e == Max(x1e + 1, Min(x2a, w))
        y2e == Max(y1e + 1, Min(y2d, h))
    IN  <<x1e, y1e, x2e, y2e>>

\* the mutant of CropRect that cuts a rectangle running off an edge
\* down to the frame instead of shifting it
CropRect_shrink(h, w, zoom_factor, pan_x, pan_y) ==
    LET crop_w == Max(1, Min(w, RoundHalfEven(w * ZoomUnit, zoom_factor)))
        crop_h == Max(1, Min(h, RoundHalfEven(h * ZoomUnit, zoom_factor)))
        cx == RoundHalfEven(w * PanUnit + 2 * pan_x, 2 * PanUnit)
        cy == RoundHalfEven(h * PanUnit + 2 * pan_y, 2 * PanUnit)
        x1a == cx - (crop_w \div 2)
        y1a == cy - (crop_h \div 2)
        x1e == Max(0, Min(x1a, w - 1))
        y1e == Max(0, Min(y1a, h - 1))
        x2e == Max(x1e + 1, Min(x1a + crop_w, w))
        y2e == Max(y1e + 1, Min(y1a + crop_h, h))
    IN  <<x1e, y1e, x2e, y2e>>

\* apply_zoom_and_pan, lines 82-122: the crop rectangle (x1, y1, x2, y2)
\* of an h x w frame
CropRect(h, w, zoom_factor, pan_x, pan_y) ==
    LET crop_w == Max(1, Min(w, RoundHalfEven(w * ZoomUnit, zoom_factor)))
        crop_h == Max(1, Min(h, RoundHalfEven(h * ZoomUnit, zoom_factor)))
        cx == RoundHalfEven(w * PanUnit + 2 * pan_x, 2 * PanUnit)
        cy == RoundHalfEven(h * PanUnit + 2 * pan_y, 2 * PanUnit)
        half_w == crop_w \div 2
        half_h == crop_h \div 2
        x1a == cx - half_w
        y1a == cy - half_h
        x2a == x1a + crop_w
        y2a == y1a + crop_h
        \* adjust if out of bounds
        x1b == IF x1a < 0 THEN 0 ELSE x1a
        x2b == IF x1a < 0 THEN crop_w ELSE x2a
        y1b == IF y1a < 0 THEN 0 ELSE y1a
        y2b == IF y1a < 0 THEN crop_h ELSE y2a
        x2d == IF x2b > w THEN w ELSE x2b
        x1d == IF x2b > w THEN w - crop_w ELSE x1b
        y2d == IF y2b > h THEN h ELSE y2b
        y1d == IF y2b > h THEN h - crop_h ELSE y1b
        \* final safety clamp
        x1e == Max(0, Min(x1d, w - 1))
        y1e == Max(0, Min(y1d, h - 1))
        x2e == Max(x1e + 1, Min(x2d, w))
        y2e == Max(y1e + 1, Min(y2d, h))
    IN  <<x1e, y1e, x2e, y2e>>


\* apply_zoom_and_pan_mask, lines 247-281: the crop rectangle of an h x w
\* mask plane
CropRectMask(h, w, zoom_factor, pan_x, pan_y) ==
    LET crop_w == Max(1, Min(w, RoundHalfEven(w * ZoomUnit, zoom_factor)))
        crop_h == Max(1, Min(h, RoundHalfEven(h * ZoomUnit, zoom_factor)))
        cx == RoundHalfEven(w * PanUnit + 2 * pan_x, 2 * PanUnit)
        cy == RoundHalfEven(h * PanUnit + 2 * pan_y, 2 * PanUnit)
        half_w == crop_w \div 2
        half_h == crop_h \div 2
        x1a == cx - half_w
        y1a == cy - half_h
        x2a == x1a + crop_w
        y2a == y1a + crop_h
        x1b == IF x1a < 0 THEN 0 ELSE x1a
        x2b == IF x1a < 0 THEN crop_w ELSE x2a
        y1b == IF y1a < 0 THEN 0 ELSE y1a
        y2b == IF y1a < 0 THEN crop_h ELSE y2a
        x2d == IF x2b > w THEN w ELSE x2b
        x1d == IF x2b > w THEN w - crop_w ELSE x1b
        y2d == IF y2b > h THEN h ELSE y2b
        y1d == IF y2b > h THEN h - crop_h ELSE y1b
        x1e == Max(0, Min(x1d, w - 1))
        y1e == Max(0, Min(y1d, h - 1))
        x2e == Max(x1e + 1, Min(x2d, w))
        y2e == Max(y1e + 1, Min(y2d, h))
    IN  <<x1e, y1e, x2e, y2e>>

\* the fast path of both functions: abs(zoom_factor - 1.0) < 1e-6
IsUnitZoom(zoom_factor) == zoom_factor = ZoomUnit

\* "if zoom_factor <= 0: zoom_factor = 1.0"
PositiveZoom(zoom_factor) == IF zoom_factor <= 0 THEN ZoomUnit ELSE zoom_factor

\* apply_zoom_and_pan on a frame of shape `shape` ((H, W) or (H, W, C)):
\* whether the frame is cropped and resized, and the crop rectangle.  The
\* result has the shape of the input.
apply_zoom_and_pan(shape, zoom_factor, pan_x, pan_y) ==
    IF IsUnitZoom(zoom_factor) \/ Len(shape) \notin {2, 3}
    THEN [zoomed |-> FALSE, rect |-> <<0, 0, 0, 0>>]
    ELSE [zoomed |-> TRUE,
          rect |-> CropRect(shape[1], shape[2], PositiveZoom(zoom_factor),
                            pan_x, pan_y)]

---------------------------------------------------------------------------
(* Planes of integer labels: a plane is a sequence of rows, a row a       *)
(* sequence of values; plane[y + 1][x + 1] is the value at (x, y).        *)

PlaneH(m) == Len(m)
PlaneW(m) == IF Len(m) = 0 THEN 0 ELSE Len(m[1])
PlaneValues(m) == {m[y][x] : y \in 1..PlaneH(m), x \in 1..PlaneW(m)}

\* the plane with the rows rows[1], ..., rows[h], each of w values, as a
\* sequence of sequences
Plane(rows, h, w) == SubSeq([y \in 1..h |-> SubSeq(rows[y], 1, w)], 1, h)

\* numpy's astype(np.uint8) of an integer: the value modulo 2^8
AsUint8(v) == v % 256

PlaneAsUint8(m) ==
    LET h == PlaneH(m)
        w == PlaneW(m)
    IN  Plane([y \in 1..h |-> [x \in 1..w |-> AsUint8(m[y][x])]], h, w)

\* m[y1:y2, x1:x2]
PlaneCrop(m, x1, y1, x2, y2) ==
    Plane([y \in 1..(y2 - y1) |-> [x \in 1..(x2 - x1) |-> m[y1 + y][x1 + x]]],
          y2 - y1, x2 - x1)

\* cv2.resize(m, (w, h), interpolation=cv2.INTER_NEAREST): the destination
\* pixel (x, y) takes the source pixel (min(floor(x * sw / w), sw - 1),
\* min(floor(y * sh / h), sh - 1))
ResizeNearest(m, w, h) ==
    LET sh == PlaneH(m)
        sw == PlaneW(m)
    IN  Plane([y \in 1..h |-> [x \in 1..w |->
                  m[Min(((y - 1) * sh) \div h, sh - 1) + 1]
                   [Min(((x - 1) * sw) \div w, sw - 1) + 1]]], h, w)

\* overlay_utils.resize_mask_nearest
resize_mask_nearest(mask2d, target_w, target_h) ==
    PlaneAsUint8(ResizeNearest(PlaneAsUint8(mask2d), target_w, target_h))

\* apply_zoom_and_pan_mask, lines 283-287: the crop by the rectangle r, cast
\* to uint8 and resized back to the size of the plane
CropAndResize(m, r) ==
    [zoomed |-> TRUE,
     rect |-> r,
     mask |-> ResizeNearest(PlaneAsUint8(PlaneCrop(m, r[1], r[2], r[3], r[4])),
                            PlaneW(m), PlaneH(m))]

\* image_processing.apply_zoom_and_pan_mask on a 2-D plane
apply_zoom_and_pan_mask(m, zoom_factor, pan_x, pan_y) ==
    IF IsUnitZoom(zoom_factor)
    THEN [zoomed |-> FALSE, rect |-> <<0, 0, 0, 0>>, mask |-> m]
    ELSE CropAndResize(m, CropRectMask(PlaneH(m), PlaneW(m),
                                       PositiveZoom(zoom_factor), pan_x, pan_y))

---------------------------------------------------------------------------
(* Arrays.  An image volume is known by its shape and the file it came    *)
(* from; a mask volume also by its labels.                                 *)

None == [is_none |-> TRUE, shape |-> <<>>, src |-> 0]
Array(shape, src) == [is_none |-> FALSE, shape |-> shape, src |-> src]
ndim(a) == Len(a.shape)

\* arr[..., np.newaxis]
NewAxis(a) == [a EXCEPT !.shape = Append(a.shape, 1)]

NoMask == [is_none |-> TRUE, shape |-> <<>>, planes |-> <<>>]

NoFrame == [shown |-> "nothing"]
\* image_label.config(image="", text="Cannot display file")
CannotDisplay == [shown |-> "Cannot display file"]

NoColors == [is_none |-> TRUE, map |-> <<>>]

---------------------------------------------------------------------------
(* create_viewer: lines 163-214, the state and settings dicts, and the    *)
(* widgets as they are built                                               *)

InitState ==
    [current_file_index |-> 0,
     current_file_type |-> "None",
     volume |-> None,
     z_index |-> 0,
     t_index |-> 0,
     z_max |-> 1,
     t_max |-> 1,
     zoom_factor |-> ZoomUnit,
     zoom_enabled |-> FALSE,
     pan_x |-> 0,
     pan_y |-> 0,
     dragging |-> FALSE,
     drag_start_x |-> 0,
     drag_start_y |-> 0,
     drag_start_pan_x |-> 0,
     drag_start_pan_y |-> 0,
     mask_path |-> "None",
     mask_volume |-> NoMask,
     overlay_enabled |-> FALSE,
     overlay_alpha |-> 35,
     overlay_label_colors |-> NoColors,
     overlay_outline |-> FALSE,
     overlay_warned_mismatch |-> FALSE,
     overlay_label_visible |-> NoColors,
     last_disp_base_wh |-> <<0, 0>>,
     last_disp_scaled_wh |-> <<0, 0>>,
     last_mask_scaled |-> <<>>,
     is_ct |-> FALSE]

InitSettings ==
    [hist_eq |-> FALSE,
     colormap |-> FALSE,
     brightness_contrast |-> FALSE,
     brightness |-> 0,
     contrast |-> 1,
     wl_enabled |-> FALSE,
     wl_center |-> 40,
     wl_width |-> 400]

InitUi ==
    [zoom_var |-> FALSE,
     overlay_var |-> FALSE,
     alpha_var |-> 35,
     outline_var |-> FALSE,
     file_slider |-> 0,
     z_slider |-> [to |-> 0, value |-> 0, mapped |-> FALSE],
     t_slider |-> [to |-> 0, value |-> 0, mapped |-> FALSE],
     wl_controls |-> "normal",
     ct_presets |-> "disabled",
     label_vars |-> <<>>,
     frame_wh |-> <<1, 1>>,
     resize_pending |-> FALSE,
     image |-> NoFrame,
     mainloop |-> FALSE]

\* What the handlers do not keep and the properties speak of:
\* origin_stale, zoom and pan were reset (toggle_zoom, load_current_file)
\* after the drag origin was last recorded (on_left_down); warnings, the
\* number of size-mismatch warnings printed since the mask was loaded;
\* loaded, the detected type and the Modality tag of the file the array in
\* state["volume"] was read from
NoSource == [file_type |-> "None", modality |-> ""]

InitHistory == [origin_stale |-> FALSE, warnings |-> 0, loaded |-> NoSource]

\* the world a handler starts in
World == [state |-> state, settings |-> settings, ui |-> ui, disk |-> disk,
          history |-> history, exc |-> FALSE, acted |-> TRUE]

---------------------------------------------------------------------------
(* overlay_utils.get_mask_slice.  A mask volume of shape (H, W) holds its  *)
(* plane at planes[1][1], one of shape (H, W, Z) its plane z at            *)
(* planes[z + 1][1], one of shape (H, W, Z, T) at planes[z + 1][t + 1].    *)

Clip(v, lo, hi) == IF v < lo THEN lo ELSE IF v > hi THEN hi ELSE v

\* np.clip(a, a_min, a_max) of an integer: minimum(maximum(a, a_min), a_max)
np_clip(a, a_min, a_max) == Min(Max(a, a_min), a_max)

\* the mutant of get_mask_slice that indexes without clamping: an index out
\* of the axis is an IndexError
get_mask_slice_unclamped(mask_vol, z_index, t_index) ==
    IF Len(mask_vol.shape) = 2
    THEN [exc |-> FALSE, plane |-> mask_vol.planes[1][1]]
    ELSE IF Len(mask_vol.shape) \notin {3, 4}
            \/ z_index \notin 0..(mask_vol.shape[3] - 1)
            \/ (Len(mask_vol.shape) = 4 /\ t_index \notin 0..(mask_vol.shape[4] - 1))
    THEN [exc |-> TRUE, plane |-> <<>>]
    ELSE [exc |-> FALSE,
          plane |-> mask_vol.planes[z_index + 1]
                       [IF Len(mask_vol.shape) = 4 THEN t_index + 1 ELSE 1]]

\* overlay_utils.get_mask_slice, lines 110-143, of a mask that is not None;
\* planes[z + 1][t + 1] is m[..., z, t].  On an empty axis the clipped index
\* is -1 and the indexing raises IndexError; a mask of another number of
\* axes that does not squeeze to 2-D raises ValueError.
get_mask_slice(mask_vol, z_index, t_index) ==
    IF Len(mask_vol.shape) = 2
    THEN [exc |-> FALSE, plane |-> mask_vol.planes[1][1]]
    ELSE IF Len(mask_vol.shape) \notin {3, 4}
            \/ mask_vol.shape[3] = 0
            \/ (Len(mask_vol.shape) = 4 /\ mask_vol.shape[4] = 0)
    THEN [exc |-> TRUE, plane |-> <<>>]
    ELSE [exc |-> FALSE,
          plane |-> mask_vol.planes[np_clip(z_index, 0, mask_vol.shape[3] - 1) + 1]
                       [IF Len(mask_vol.shape) = 4
                        THEN np_clip(t_index, 0, mask_vol.shape[4] - 1) + 1
                        ELSE 1]]

---------------------------------------------------------------------------
(* image_processing.apply_all_processing: the shape of the frame after    *)
(* each step and the geometry of the zoom step                             *)

\* step 1, histogram equalization: a (H, W, 1) frame comes back as (H, W)
ShapeAfterHistEq(shape, hist_eq) ==
    IF hist_eq /\ Len(shape) = 3 /\ shape[3] = 1 THEN SubSeq(shape, 1, 2) ELSE shape

\* step 3, colormap: a single-channel frame becomes (H, W, 3)
ShapeAfterColormap(shape, colormap) ==
    IF colormap /\ (Len(shape) = 2 \/ (Len(shape) = 3 /\ shape[3] = 1))
    THEN <<shape[1], shape[2], 3>>
    ELSE shape

\* "out.ndim == 2 or (out.ndim == 3 and out.shape[2] == 1)"
SingleChannel(shape) ==
    Len(shape) = 2 \/ (Len(shape) = 3 /\ shape[3] = 1)

\* the name of a step when it runs, for the record of the steps run
Step(runs, name) == IF runs THEN <<name>> ELSE <<>>

NoZoom == [zoomed |-> FALSE, rect |-> <<0, 0, 0, 0>>]

\* the mutant of apply_all_processing that colours the frame first
apply_all_processing_colorfirst(shape, hist_eq, brightness_contrast, colormap, zoom_enabled, zoom_factor, pan_x, pan_y) ==
    LET s1 == ShapeAfterColormap(shape, colormap)
        s3 == ShapeAfterHistEq(s1, hist_eq)
    IN  [shape |-> s3,
         equalized |-> hist_eq /\ SingleChannel(s1),
         adjusted |-> brightness_contrast,
         colored |-> s1 # shape,
         zoom |-> IF zoom_enabled
                  THEN apply_zoom_and_pan(s3, zoom_factor, pan_x, pan_y)
                  ELSE NoZoom,
         steps |-> Step(s1 # shape, "colormap")
                     \o Step(hist_eq /\ SingleChannel(s1), "hist_eq")
                     \o Step(brightness_contrast, "brightness_contrast")
                     \o Step(zoom_enabled, "zoom_pan")]

\* the result: its shape, which steps were applied (each on its own and
\* all of them in the order they ran), and the zoom step (zoom.zoomed,
\* zoom.rect)
apply_all_processing(shape, hist_eq, brightness_contrast, colormap, zoom_enabled, zoom_factor, pan_x, pan_y) ==
    LET s1 == ShapeAfterHistEq(shape, hist_eq)
        s3 == ShapeAfterColormap(s1, colormap)
    IN  [shape |-> s3,
         equalized |-> hist_eq /\ SingleChannel(shape),
         adjusted |-> brightness_contrast,
         colored |-> s3 # s1,
         zoom |-> IF zoom_enabled
                  THEN apply_zoom_and_pan(s3, zoom_factor, pan_x, pan_y)
                  ELSE NoZoom,
         steps |-> Step(hist_eq /\ SingleChannel(shape), "hist_eq")
                     \o Step(brightness_contrast, "brightness_contrast")
                     \o Step(s3 # s1, "colormap")
                     \o Step(zoom_enabled, "zoom_pan")]

---------------------------------------------------------------------------
(* create_viewer.build_display_image, lines 1151-1256 *)

\* is_rgb of lines 1161, 1363, 1382, 494 and 526
IsRgb(ft, vol) ==
    /\ ft \in {"JPEG/PNG", "TIFF"}
    /\ ~vol.is_none
    /\ ndim(vol) = 3
    /\ vol.shape[3] = 3

\* vol[..., z_index, t_index] raises IndexError unless the array has two
\* axes to index and both indices are inside them
SliceRaises(vol, z_index, t_index) ==
    \/ ndim(vol) < 2
    \/ z_index >= vol.shape[ndim(vol) - 1]
    \/ t_index >= vol.shape[ndim(vol)]

\* lines 1200-1204: the on-screen size of a w x h frame
ScaledWH(w, h, fw, fh) ==
    IF fw > 1 /\ fh > 1
    THEN IF fw * h <= fh * w
         THEN <<Max(1, (w * fw) \div w), Max(1, (h * fw) \div w)>>
         ELSE <<Max(1, (w * fh) \div h), Max(1, (h * fh) \div h)>>
    ELSE <<Max(1, w), Max(1, h)>>

\* line 1228: the zoomed mask zm at the on-screen size
MaskScaled(zm, new_w, new_h) ==
    [mask |-> resize_mask_nearest(zm.mask, new_w, new_h),
     zoomed |-> zm.zoomed,
     rect |-> zm.rect]

\* lines 1216-1230: the mask plane of the frame
MaskPath(m0, w, h, new_w, new_h, zoom_factor, pan_x, pan_y) ==
    MaskScaled(apply_zoom_and_pan_mask(resize_mask_nearest(m0, w, h),
                                       zoom_factor, pan_x, pan_y),
               new_w, new_h)

\* lines 1196-1204: the sizes the redraw remembers
\* (the mutant that also moves the pan is StoreFrameSize_drift)
StoreFrameSize_drift(g, wh, new_wh) ==
    [g EXCEPT !.state.last_disp_base_wh = wh,
              !.state.last_disp_scaled_wh = new_wh,
              !.state.pan_x = @ + 1]

StoreFrameSize(g, wh, new_wh) ==
    [g EXCEPT !.state.last_disp_base_wh = wh,
              !.state.last_disp_scaled_wh = new_wh]

\* overlay_utils.apply_overlay_to_pil on to_binary_mask(mask), lines 146-232:
\* the labels whose pixels are blended are the ones above the threshold 0
apply_overlay_to_pil(mask) == {l \in PlaneValues(mask) : l > 0}

\* the parameters of apply_multiclass_overlay_to_pil, lines 234-240
MulticlassParameters == {"base_pil", "mask2d", "label_colors", "alpha", "outline"}

\* overlay_utils.apply_multiclass_overlay_to_pil, lines 234-264, called with
\* the keyword arguments `keywords`: a keyword that is no parameter is a
\* TypeError; otherwise every label of label_colors other than 0 that the
\* mask holds is blended
apply_multiclass_overlay_to_pil(keywords, mask, label_colors) ==
    IF ~(keywords \subseteq MulticlassParameters)
    THEN [exc |-> TRUE, blended |-> {}]
    ELSE [exc |-> FALSE,
          blended |-> {l \in DOMAIN label_colors.map :
                          l # 0 /\ l \in PlaneValues(mask)}]

\* lines 1234-1254: the labels blended into the frame
Composite(st, mask) ==
    IF st.overlay_label_colors.is_none
    THEN apply_overlay_to_pil(mask)
    ELSE IF ~apply_multiclass_overlay_to_pil(
                {"label_colors", "alpha", "outline", "label_visible"},
                mask, st.overlay_label_colors).exc
    THEN apply_multiclass_overlay_to_pil(
                {"label_colors", "alpha", "outline", "label_visible"},
                mask, st.overlay_label_colors).blended
    ELSE apply_multiclass_overlay_to_pil(
                {"label_colors", "alpha", "outline"},
                mask, st.overlay_label_colors).blended

\* the mutant of OverlayFrame that prints the warning and does not remember it
OverlayFrame_forget(g, base, warn, mp) ==
    [g |-> [g EXCEPT !.history.warnings = IF warn THEN @ + 1 ELSE @,
                     !.state.last_mask_scaled = mp.mask],
     exc |-> FALSE,
     pil |-> [base EXCEPT !.overlay = IF g.state.overlay_label_colors.is_none
                                      THEN "binary" ELSE "multiclass",
                          !.mask_zoomed = mp.zoomed,
                          !.mask_rect = mp.rect,
                          !.mask = mp.mask,
                          !.blended = Composite(g.state, mp.mask),
                          !.alpha = g.state.overlay_alpha,
                          !.outline = g.state.overlay_outline]]

\* lines 1222-1256: the frame `base` with the mask mp laid over it; warn
\* tells that the size mismatch is reported now
OverlayFrame(g, base, warn, mp) ==
    [g |-> [g EXCEPT !.state.overlay_warned_mismatch = (@ \/ warn),
                     !.history.warnings = IF warn THEN @ + 1 ELSE @,
                     !.state.last_mask_scaled = mp.mask],
     exc |-> FALSE,
     pil |-> [base EXCEPT !.overlay = IF g.state.overlay_label_colors.is_none
                                      THEN "binary" ELSE "multiclass",
                          !.mask_zoomed = mp.zoomed,
                          !.mask_rect = mp.rect,
                          !.mask = mp.mask,
                          !.blended = Composite(g.state, mp.mask),
                          !.alpha = g.state.overlay_alpha,
                          !.outline = g.state.overlay_outline]]

\* lines 1194-1256: the frame made of the processed slice `out`
DisplayFrame(g, out) ==
    LET st == g.state
        se == g.settings
        is_rgb == IsRgb(st.current_file_type, st.volume)
    IN
    \* line 1196, "h, w = out.shape[:2]", needs two axes
    IF Len(out.shape) < 2
    THEN [g |-> g, exc |-> TRUE, pil |-> NoFrame]
    ELSE
    LET h == out.shape[1]
        w == out.shape[2]
        new_wh == ScaledWH(w, h, g.ui.frame_wh[1], g.ui.frame_wh[2])
        g0 == StoreFrameSize(g, <<w, h>>, new_wh)
        g1 == [g0 EXCEPT !.state.last_mask_scaled = <<>>]
    IN
    \* line 1209, Image.fromarray(out, "RGB"), needs three channels
    IF Len(out.shape) > 3 \/ (Len(out.shape) = 3 /\ out.shape[3] # 3)
    THEN [g |-> g0, exc |-> TRUE, pil |-> NoFrame]
    ELSE
    LET base == [shown |-> "image",
                 src |-> st.volume.src,
                 z_index |-> IF is_rgb THEN 0 ELSE st.z_index,
                 t_index |-> IF is_rgb THEN 0 ELSE st.t_index,
                 rgb |-> is_rgb,
                 windowed |-> ~is_rgb /\ se.wl_enabled,
                 wl_center |-> se.wl_center,
                 wl_width |-> se.wl_width,
                 equalized |-> out.equalized,
                 adjusted |-> out.adjusted,
                 brightness |-> se.brightness,
                 contrast |-> se.contrast,
                 colored |-> out.colored,
                 zoomed |-> out.zoom.zoomed,
                 rect |-> out.zoom.rect,
                 zoom_factor |-> st.zoom_factor,
                 pan_x |-> st.pan_x,
                 pan_y |-> st.pan_y,
                 base_wh |-> <<w, h>>,
                 scaled_wh |-> new_wh,
                 overlay |-> "none",
                 mask_zoomed |-> FALSE,
                 mask_rect |-> <<0, 0, 0, 0>>,
                 mask |-> <<>>,
                 blended |-> {},
                 alpha |-> 0,
                 outline |-> FALSE]
    IN
    IF ~(st.overlay_enabled /\ ~st.mask_volume.is_none)
    THEN [g |-> g1, exc |-> FALSE, pil |-> base]
    ELSE
    LET ms == get_mask_slice(st.mask_volume, st.z_index, st.t_index)
    IN
    IF ms.exc
    THEN [g |-> g1, exc |-> TRUE, pil |-> NoFrame]
    ELSE
    LET m == ms.plane
        mismatch == PlaneW(m) # w \/ PlaneH(m) # h
        warn == mismatch /\ ~st.overlay_warned_mismatch
    IN  OverlayFrame(g1, base, warn,
                     MaskPath(m, w, h, new_wh[1], new_wh[2],
                              st.zoom_factor, st.pan_x, st.pan_y))

build_display_image(g) ==
    LET st == g.state
        se == g.settings
        vol == st.volume
        is_rgb == IsRgb(st.current_file_type, vol)
    IN
    IF vol.is_none
    THEN [g |-> [g EXCEPT !.state.last_disp_base_wh = <<0, 0>>,
                          !.state.last_disp_scaled_wh = <<0, 0>>,
                          !.state.last_mask_scaled = <<>>],
          exc |-> FALSE, pil |-> CannotDisplay]
    ELSE IF ~is_rgb /\ SliceRaises(vol, st.z_index, st.t_index)
    THEN [g |-> g, exc |-> TRUE, pil |-> NoFrame]
    ELSE DisplayFrame(g, apply_all_processing(
                            IF is_rgb THEN vol.shape
                            ELSE SubSeq(vol.shape, 1, ndim(vol) - 2),
                            se.hist_eq, se.brightness_contrast, se.colormap,
                            st.zoom_enabled, st.zoom_factor, st.pan_x, st.pan_y))

\* lines 1260-1268: what build_display_image returned is put on the label
ShowFrame(b) ==
    IF b.exc
    THEN [b.g EXCEPT !.exc = TRUE]
    ELSE [b.g EXCEPT !.ui.image = b.pil]

\* create_viewer.display_current_slice, lines 1258-1268
display_current_slice(g) == ShowFrame(build_display_image(g))

---------------------------------------------------------------------------
(* create_viewer: zoom, pan and slice handlers *)

ZoomMin == ZoomUnit \div 2
ZoomMax == 10 * ZoomUnit

\* lines 1030-1035: one wheel step of 1.1, then the clamp to [0.5, 10.0]
\* (the mutant without the clamp is WheelStep_noclamp)
WheelStep_noclamp(zoom_factor, up) ==
    IF up THEN FloatDiv(zoom_factor * 11, 10) ELSE FloatDiv(zoom_factor * 10, 11)

WheelStep(zoom_factor, up) ==
    LET z == IF up THEN FloatDiv(zoom_factor * 11, 10)
                   ELSE FloatDiv(zoom_factor * 10, 11)
    IN  Max(ZoomMin, Min(ZoomMax, z))

\* a handler that returns at once
Returned(g) == [g EXCEPT !.acted = FALSE]

\* the mutant of toggle_zoom that leaves zoom_factor and pan alone
toggle_zoom_keepview(g) ==
    display_current_slice(
        [g EXCEPT !.state.zoom_enabled = g.ui.zoom_var,
                  !.history.origin_stale = TRUE])

\* lines 322-327
toggle_zoom(g) ==
    display_current_slice(
        [g EXCEPT !.state.zoom_enabled = g.ui.zoom_var,
                  !.state.pan_x = 0,
                  !.state.pan_y = 0,
                  !.state.zoom_factor = ZoomUnit,
                  !.history.origin_stale = TRUE])

\* lines 340-344
reset_view(g) ==
    display_current_slice(
        [g EXCEPT !.state.pan_x = 0,
                  !.state.pan_y = 0,
                  !.state.zoom_factor = ZoomUnit])

\* the mutant of on_mouse_wheel that turns the wheel whether or not zoom
\* is enabled
on_mouse_wheel_unguarded(g, delta) ==
    display_current_slice(
        [g EXCEPT !.state.zoom_factor = WheelStep(@, delta > 0)])

\* lines 1027-1036
on_mouse_wheel(g, delta) ==
    IF ~g.state.zoom_enabled THEN Returned(g)
    ELSE display_current_slice(
            [g EXCEPT !.state.zoom_factor = WheelStep(@, delta > 0)])

\* lines 1038-1047
scroll_zoom(g, direction) ==
    IF ~g.state.zoom_enabled THEN Returned(g)
    ELSE display_current_slice(
            [g EXCEPT !.state.zoom_factor = WheelStep(@, direction > 0)])

\* lines 1049-1056
on_left_down(g, x, y) ==
    IF ~g.state.zoom_enabled THEN Returned(g)
    ELSE [g EXCEPT !.state.dragging = TRUE,
                   !.state.drag_start_x = x,
                   !.state.drag_start_y = y,
                   !.state.drag_start_pan_x = g.state.pan_x,
                   !.state.drag_start_pan_y = g.state.pan_y,
                   !.history.origin_stale = FALSE]

\* lines 1058-1059
on_left_up(g) == [g EXCEPT !.state.dragging = FALSE]

\* lines 1064-1068: the pan a drag to (x, y) writes
DragPan(st, x, y) ==
    LET dx == x - st.drag_start_x
        dy == y - st.drag_start_y
        zf == IF st.zoom_factor # 0 THEN st.zoom_factor ELSE ZoomUnit
    IN  <<st.drag_start_pan_x - FloatDiv(dx * PanUnit * ZoomUnit, zf),
          st.drag_start_pan_y - FloatDiv(dy * PanUnit * ZoomUnit, zf)>>

\* lines 1061-1069
on_left_drag(g, x, y) ==
    IF ~g.state.dragging \/ ~g.state.zoom_enabled THEN Returned(g)
    ELSE display_current_slice(
            [g EXCEPT !.state.pan_x = DragPan(g.state, x, y)[1],
                      !.state.pan_y = DragPan(g.state, x, y)[2]])

\* a callback Tk runs from inside a handler: an exception it raises is
\* reported by Tk and does not reach the handler
Swallow(g, after) == [after EXCEPT !.exc = g.exc, !.acted = g.acted]

\* the mutant of on_z_change that also resets the view
on_z_change_reset(g, val) ==
    display_current_slice([g EXCEPT !.state.z_index = val,
                                    !.state.zoom_factor = ZoomUnit,
                                    !.state.pan_x = 0,
                                    !.state.pan_y = 0])

\* lines 1287-1289
on_z_change(g, val) ==
    display_current_slice([g EXCEPT !.state.z_index = val])

\* lines 1291-1293
on_t_change(g, val) ==
    display_current_slice([g EXCEPT !.state.t_index = val])

\* z_slider.set(v): the scale keeps v within [0, to] and runs its command,
\* on_z_change (line 1295)
z_slider_set(g, v) ==
    LET c == Clip(v, 0, g.ui.z_slider.to)
    IN  Swallow(g, on_z_change([g EXCEPT !.ui.z_slider.value = c], c))

\* t_slider.set(v), with its command on_t_change (line 1296)
t_slider_set(g, v) ==
    LET c == Clip(v, 0, g.ui.t_slider.to)
    IN  Swallow(g, on_t_change([g EXCEPT !.ui.t_slider.value = c], c))

\* lines 1453-1458 (np.clip of the stepped index)
safe_change_z(g, delta) ==
    IF g.state.z_max <= 1 THEN Returned(g)
    ELSE LET z == Clip(g.state.z_index + delta, 0, g.state.z_max - 1)
         IN  display_current_slice(z_slider_set([g EXCEPT !.state.z_index = z], z))

\* lines 1460-1465
safe_change_t(g, delta) ==
    IF g.state.t_max <= 1 THEN Returned(g)
    ELSE LET t == Clip(g.state.t_index + delta, 0, g.state.t_max - 1)
         IN  display_current_slice(t_slider_set([g EXCEPT !.state.t_index = t], t))

---------------------------------------------------------------------------
(* Mask files the user can pick.  "small.npy" is a 2 x 2 plane with a      *)
(* label above 255 and one below 0; "labels.nii" has the size of the image *)
(* planes and two slices; "broken.png" exists and cannot be decoded.       *)

SmallPlane == << <<0, 1>>, <<300, -1>> >>

LabelPlane(z) == Plane([y \in 1..ImgH |-> [x \in 1..ImgW |-> (x + y + z) % 3]], ImgH, ImgW)

\* a mask of the image size with the values 0 and 255 only
BinaryPlane == Plane([y \in 1..ImgH |-> [x \in 1..ImgW |-> IF x = y THEN 255 ELSE 0]], ImgH, ImgW)

MaskPaths == {"small.npy", "labels.nii", "binary.png", "broken.png"}

\* overlay_utils.load_mask, lines 81-107, on the files above
load_mask(mask_path) ==
    CASE mask_path = "small.npy" ->
            [exc |-> FALSE,
             m |-> [is_none |-> FALSE, shape |-> <<2, 2>>,
                    planes |-> << <<SmallPlane>> >>]]
      [] mask_path = "labels.nii" ->
            [exc |-> FALSE,
             m |-> [is_none |-> FALSE, shape |-> <<ImgH, ImgW, 2>>,
                    planes |-> << <<LabelPlane(0)>>, <<LabelPlane(1)>> >>]]
      [] mask_path = "binary.png" ->
            [exc |-> FALSE,
             m |-> [is_none |-> FALSE, shape |-> <<ImgH, ImgW>>,
                    planes |-> << <<BinaryPlane>> >>]]
      [] OTHER -> [exc |-> TRUE, m |-> NoMask]

\* np.unique(mask_vol)
MaskLabels(m) ==
    UNION {PlaneValues(m.planes[z][t]) :
             z \in 1..Len(m.planes), t \in 1..Len(m.planes[1])}

PaletteSize == 8

\* overlay_utils.default_label_colormap, lines 267-294: the i-th non-zero
\* label in ascending order gets palette[i % len(palette)]
default_label_colormap(m) ==
    LET labels == MaskLabels(m) \ {0}
    IN  [is_none |-> FALSE,
         map |-> [l \in labels |->
                    Cardinality({k \in labels : k < l}) % PaletteSize]]

---------------------------------------------------------------------------
(* create_viewer: window/level controls, overlay and presets *)

\* the mutant of _update_wl_ui_enabled that leaves wl_enabled alone
update_wl_ui_enabled_keepwl(g) ==
    LET is_rgb == IsRgb(g.state.current_file_type, g.state.volume)
    IN  [g EXCEPT !.ui.wl_controls = IF is_rgb THEN "disabled" ELSE "normal",
                  !.ui.ct_presets = IF ~is_rgb /\ g.state.is_ct
                                    THEN "normal" ELSE "disabled"]

\* lines 516-553
update_wl_ui_enabled(g) ==
    LET is_rgb == IsRgb(g.state.current_file_type, g.state.volume)
    IN  [g EXCEPT !.ui.wl_controls = IF is_rgb THEN "disabled" ELSE "normal",
                  !.settings.wl_enabled = IF is_rgb THEN FALSE ELSE @,
                  !.ui.ct_presets = IF ~is_rgb /\ g.state.is_ct
                                    THEN "normal" ELSE "disabled"]

\* lines 611-613
toggle_overlay(g) ==
    display_current_slice([g EXCEPT !.state.overlay_enabled = g.ui.overlay_var])

\* lines 615-620, after Tk has stored the scale value val in alpha_var
on_alpha_change(g, val) ==
    display_current_slice([g EXCEPT !.state.overlay_alpha = val,
                                    !.ui.alpha_var = val])

\* lines 622-624
toggle_outline(g) ==
    display_current_slice([g EXCEPT !.state.overlay_outline = g.ui.outline_var])

\* `state.get("overlay_label_visible") or {}`: None and the empty dict both
\* give an empty dict
VisibleOrEmpty(st) ==
    IF st.overlay_label_visible.is_none THEN <<>> ELSE st.overlay_label_visible.map

\* `state.get("overlay_label_colors") or {}`
ColorsOrEmpty(st) ==
    IF st.overlay_label_colors.is_none THEN <<>> ELSE st.overlay_label_colors.map

\* lines 640-683 with an empty search box: one BooleanVar per label of the
\* color map, set to vis.get(lbl, True)
rebuild_label_checkboxes(g) ==
    [g EXCEPT !.ui.label_vars =
        [l \in DOMAIN ColorsOrEmpty(g.state) |->
            IF l \in DOMAIN VisibleOrEmpty(g.state)
            THEN VisibleOrEmpty(g.state)[l] ELSE TRUE]]

\* lines 631-638, after Tk has stored the checkbox value in label_vars
on_label_visibility_change(g, lbl) ==
    IF lbl \notin DOMAIN g.ui.label_vars
    THEN Returned(g)
    ELSE display_current_slice(
            [g EXCEPT !.state.overlay_label_visible =
                [is_none |-> FALSE,
                 map |-> [l \in DOMAIN VisibleOrEmpty(g.state) \cup {lbl} |->
                            IF l = lbl THEN g.ui.label_vars[lbl]
                            ELSE VisibleOrEmpty(g.state)[l]]]])

\* lines 690-696
set_all_labels(g, val) ==
    display_current_slice(rebuild_label_checkboxes(
        [g EXCEPT !.state.overlay_label_visible =
            [is_none |-> FALSE,
             map |-> [l \in DOMAIN VisibleOrEmpty(g.state) |-> val]]]))

\* lines 698-704
invert_labels(g) ==
    display_current_slice(rebuild_label_checkboxes(
        [g EXCEPT !.state.overlay_label_visible =
            [is_none |-> FALSE,
             map |-> [l \in DOMAIN VisibleOrEmpty(g.state) |->
                        ~VisibleOrEmpty(g.state)[l]]]]))

\* lines 706-736; ok tells what the function returns
load_mask_from_path(g, mask_path) ==
    IF mask_path \notin MaskPaths \/ load_mask(mask_path).exc
    THEN [g |-> g, ok |-> FALSE]
    ELSE LET m == load_mask(mask_path).m
             lc == default_label_colormap(m)
         IN  [g |-> rebuild_label_checkboxes(
                    [g EXCEPT !.state.mask_path = mask_path,
                              !.state.mask_volume = m,
                              !.state.overlay_enabled = TRUE,
                              !.state.overlay_warned_mismatch = FALSE,
                              !.history.warnings = 0,
                              !.state.overlay_label_colors = lc,
                              !.state.overlay_label_visible =
                                  [is_none |-> FALSE,
                                   map |-> [l \in DOMAIN lc.map |-> TRUE]],
                              !.ui.overlay_var = TRUE,
                              !.ui.alpha_var = g.state.overlay_alpha,
                              !.ui.outline_var = g.state.overlay_outline]),
              ok |-> TRUE]

\* lines 749-753: the redraw that follows a mask that was loaded
RedrawIfLoaded(r) == IF ~r.ok THEN r.g ELSE display_current_slice(r.g)

\* lines 738-753, with the path the file dialog returned
load_mask_dialog(g, mask_path) ==
    RedrawIfLoaded(load_mask_from_path(g, mask_path))

\* lines 755-765
clear_mask(g) ==
    display_current_slice(rebuild_label_checkboxes(
        [g EXCEPT !.state.mask_path = "None",
                  !.state.mask_volume = NoMask,
                  !.state.overlay_label_colors = NoColors,
                  !.state.overlay_label_visible = NoColors,
                  !.state.overlay_enabled = FALSE,
                  !.ui.overlay_var = FALSE]))

NoPreset == [is_none |-> TRUE]

\* a display_current_slice() that ends a sequence of statements: it is not
\* reached when one of them raised
RedrawUnlessRaised(g) == IF g.exc THEN g ELSE display_current_slice(g)

\* the labels a mask can hold (uint8 for the PNG masks)
MaxLabel == 255

\* str(k) of a dict key, as json.dumps writes it
str(k) == ToString(k)

\* int(k) of a key json.loads read
int(k) == CHOOSE n \in 0..MaxLabel : ToString(n) = k

\* json.dumps of a visibility map followed by json.loads: None stays None,
\* the integer keys of a dict come back as strings
JsonMap(lv) ==
    IF lv.is_none THEN lv
    ELSE [is_none |-> FALSE,
          map |-> [k \in {str(l) : l \in DOMAIN lv.map} |-> lv.map[int(k)]]]

\* lines 942-951: the keys of the stored map are read back with int(k)
IntMap(lv) ==
    [is_none |-> FALSE,
     map |-> [l \in {int(k) : k \in DOMAIN lv.map} |-> lv.map[str(l)]]]

\* lines 879-899
collect_current_preset(g) ==
    [is_none |-> FALSE,
     preprocessing |-> g.settings,
     overlay |-> [overlay_enabled |-> g.ui.overlay_var,
                  overlay_alpha |-> g.ui.alpha_var,
                  overlay_outline |-> g.ui.outline_var,
                  mask_path |-> g.state.mask_path,
                  label_visible |-> g.state.overlay_label_visible]]

\* _save_presets followed by _load_presets, lines 136-149: the preset as it
\* comes back from session_presets.json
JsonPreset(preset) ==
    [preset EXCEPT !.overlay.label_visible = JsonMap(@)]

\* lines 978-984
save_session_preset(g) ==
    [g EXCEPT !.disk.presets[g.state.current_file_index + 1] =
                  JsonPreset(collect_current_preset(g))]

\* lines 941-952
RestoreVisible(g, lv) ==
    IF lv.is_none THEN g
    ELSE rebuild_label_checkboxes(
            [g EXCEPT !.state.overlay_label_visible = IntMap(lv)])

\* lines 901-974, for a preset read from session_presets.json
apply_preset_dict(g, preset) ==
    LET pre == preset.preprocessing
        ov == preset.overlay
        g1 == update_wl_ui_enabled([g EXCEPT !.settings = pre])
        g2 == [g1 EXCEPT !.ui.alpha_var = ov.overlay_alpha,
                         !.ui.outline_var = ov.overlay_outline,
                         !.state.overlay_outline = ov.overlay_outline]
        g3 == IF ov.mask_path \in MaskPaths
              THEN load_mask_from_path(g2, ov.mask_path).g
              ELSE g2
        g4 == RestoreVisible(g3, ov.label_visible)
    IN  RedrawUnlessRaised(
            toggle_overlay([g4 EXCEPT !.ui.overlay_var = ov.overlay_enabled]))

\* lines 986-998, with show_message False
apply_session_preset(g) ==
    LET preset == g.disk.presets[g.state.current_file_index + 1]
    IN  IF preset.is_none THEN g ELSE apply_preset_dict(g, preset)

\* line 216: the CT presets, (center, width)
WL_PRESETS_CT ==
    ("Soft tissue" :> <<40, 400>>) @@ ("Lung" :> <<-600, 1500>>) @@
    ("Bone" :> <<300, 2000>>)

\* lines 481-486
apply_ct_preset(g, name) ==
    display_current_slice(
        [g EXCEPT !.settings.wl_center = WL_PRESETS_CT[name][1],
                  !.settings.wl_width = WL_PRESETS_CT[name][2],
                  !.settings.wl_enabled = TRUE])

\* lines 222-247, for a slice whose 1st and 99th percentiles are p1 and p99
\* and whose least and greatest values are mn and mx
auto_window_level_from_slice(p1, p99, mn, mx) ==
    LET lo == IF p99 <= p1 THEN mn ELSE p1
        hi == IF p99 <= p1 THEN mx ELSE p99
    IN  IF p99 <= p1 /\ mx <= mn
        THEN <<40, 400>>
        ELSE <<RoundHalfEven(hi + lo, 2), Max(1, hi - lo)>>

\* lines 488-503, with cw what auto_window_level_from_slice gives for the
\* slice on screen
auto_wl_now(g, cw) ==
    IF g.state.volume.is_none THEN Returned(g)
    ELSE IF IsRgb(g.state.current_file_type, g.state.volume) THEN Returned(g)
    ELSE IF SliceRaises(g.state.volume, g.state.z_index, g.state.t_index)
    THEN [g EXCEPT !.exc = TRUE]
    ELSE display_current_slice(
            [g EXCEPT !.settings.wl_center = cw[1],
                      !.settings.wl_width = cw[2],
                      !.settings.wl_enabled = TRUE])

\* lines 555-564
reset_preprocessing(g) ==
    display_current_slice([g EXCEPT !.settings = InitSettings])

---------------------------------------------------------------------------
(* What the detector and the loaders answer for the file being opened.    *)
(* raises/shape are the answer of the loader load_current_file calls for  *)
(* the detected type (for DICOM, load_dicom_series_from_file);            *)
(* single_raises/single_shape are the answer of load_dicom.               *)

Outcome(ft, raises, shape, modality, single_raises, single_shape) ==
    [file_type |-> ft, raises |-> raises, shape |-> shape, modality |-> modality,
     single_raises |-> single_raises, single_shape |-> single_shape,
     window |-> <<>>]

\* the DICOM file o whose data set has the tags WindowCenter and WindowWidth
Declared(o, center, width) == [o EXCEPT !.window = <<center, width>>]

Plain(ft, raises, shape) == Outcome(ft, raises, shape, "", TRUE, <<>>)

\* no file is opened
NoOutcome == Outcome("", FALSE, <<>>, "", FALSE, <<>>)

LoadOutcomes ==
    { Plain("None", TRUE, <<>>),
      Outcome("DICOM", FALSE, <<ImgH, ImgW, 2>>, "CT", FALSE, <<ImgH, ImgW>>),
      Outcome("DICOM", TRUE, <<>>, "", FALSE, <<ImgH, ImgW>>),
      Outcome("DICOM", TRUE, <<>>, "", TRUE, <<>>),
      Plain("NIfTI", TRUE, <<>>),
      Plain("NIfTI", FALSE, <<ImgH>>),
      Plain("NIfTI", FALSE, <<ImgH, ImgW>>),
      Plain("NIfTI", FALSE, <<ImgH, ImgW, 2, 2>>),
      Plain("NIfTI", FALSE, <<ImgH, ImgW, 2, 1, 2>>),
      Plain("JPEG/PNG", FALSE, <<ImgH, ImgW, 3>>) }

\* the meta dict of load_dicom_series_from_file (lines 255-261, 286-293,
\* 332-338, 401-408): of the tags of the data set it takes the Modality;
\* the window tags of the file (o.window) are not copied
SeriesMeta(o) == [SeriesInstanceUID |-> "uid", Modality |-> o.modality]

\* d.get(key, None): <<>> for None
dict_get(d, key) == IF key \in DOMAIN d THEN <<d[key]>> ELSE <<>>

---------------------------------------------------------------------------
(* create_viewer.load_current_file, lines 1298-1421 *)

\* lines 1309-1358: the array, and what the DICOM branch writes
LoadArray(g, o) ==
    LET idx == g.state.current_file_index
        g0 == [g EXCEPT !.state.current_file_type = o.file_type]
    IN
    CASE o.file_type = "DICOM" /\ ~o.raises ->
            LET meta == SeriesMeta(o)
                is_ct == meta.Modality = "CT"
                wc == dict_get(meta, "WindowCenter")
                ww == dict_get(meta, "WindowWidth")
                tagged == is_ct /\ wc # <<>> /\ ww # <<>>
            IN  [g |-> [g0 EXCEPT !.state.is_ct = is_ct,
                                  !.settings.wl_center = IF tagged THEN wc[1] ELSE @,
                                  !.settings.wl_width = IF tagged THEN ww[1] ELSE @,
                                  !.settings.wl_enabled =
                                      IF is_ct
                                      THEN (IF tagged THEN TRUE ELSE @)
                                      ELSE FALSE],
                 arr |-> Array(o.shape, idx)]
      [] o.file_type = "DICOM" /\ o.raises ->
            [g |-> [g0 EXCEPT !.state.is_ct = FALSE,
                              !.settings.wl_enabled = FALSE],
             arr |-> IF o.single_raises THEN None ELSE Array(o.single_shape, idx)]
      [] o.file_type \in {"NIfTI", "JPEG/PNG", "TIFF", "WHOLESLIDE"} ->
            IF o.raises
            THEN [g |-> [g0 EXCEPT !.exc = TRUE], arr |-> None]
            ELSE [g |-> [g0 EXCEPT !.state.is_ct = FALSE],
                  arr |-> Array(o.shape, idx)]
      [] OTHER ->
            [g |-> [g0 EXCEPT !.state.is_ct = FALSE], arr |-> None]

\* lines 1360-1371: the array as it is stored in state["volume"]
StoreVolume(ft, arr) ==
    IF arr.is_none THEN None
    ELSE IF IsRgb(ft, arr) THEN arr
    ELSE IF ndim(arr) = 2 THEN NewAxis(NewAxis(arr))
    ELSE IF ndim(arr) = 3 THEN NewAxis(arr)
    ELSE arr

HideSliders(g) ==
    [g EXCEPT !.state.z_max = 1, !.state.t_max = 1,
              !.state.z_index = 0, !.state.t_index = 0,
              !.ui.z_slider.mapped = FALSE, !.ui.t_slider.mapped = FALSE]

\* lines 1398-1403: the Z slider is shown when there are slices to choose
ShowZSlider(g) ==
    IF g.state.z_max > 1
    THEN [z_slider_set([g EXCEPT !.ui.z_slider.to = g.state.z_max - 1],
                       g.state.z_index)
              EXCEPT !.ui.z_slider.mapped = TRUE]
    ELSE [g EXCEPT !.ui.z_slider.mapped = FALSE]

\* lines 1405-1410: the same for the T slider
ShowTSlider(g) ==
    IF g.state.t_max > 1
    THEN [t_slider_set([g EXCEPT !.ui.t_slider.to = g.state.t_max - 1],
                       g.state.t_index)
              EXCEPT !.ui.t_slider.mapped = TRUE]
    ELSE [g EXCEPT !.ui.t_slider.mapped = FALSE]

\* lines 1392-1411
ShowExtents(g) ==
    LET shape == g.state.volume.shape
    IN
    IF Len(shape) < 3 THEN [g EXCEPT !.exc = TRUE]
    ELSE IF Len(shape) < 4 THEN [g EXCEPT !.state.z_max = shape[3], !.exc = TRUE]
    ELSE
    LET z_max == shape[3]
        t_max == shape[4]
    IN  ShowTSlider(ShowZSlider(
            [g EXCEPT !.state.z_max = z_max,
                      !.state.t_max = t_max,
                      !.state.z_index = Min(z_max \div 2, z_max - 1),
                      !.state.t_index = Min(t_max \div 2, t_max - 1)]))

\* lines 1413-1415
\* (the mutant that leaves the pan alone is ResetZoomPan_keeppan)
ResetZoomPan_keeppan(g) ==
    [g EXCEPT !.state.zoom_factor = ZoomUnit, !.history.origin_stale = TRUE]

ResetZoomPan(g) ==
    [g EXCEPT !.state.zoom_factor = ZoomUnit,
              !.state.pan_x = 0,
              !.state.pan_y = 0,
              !.history.origin_stale = TRUE]

\* lines 1373-1411: the extents of the stored volume and the sliders
Extents(g) ==
    IF g.state.volume.is_none \/ IsRgb(g.state.current_file_type, g.state.volume)
    THEN HideSliders(g)
    ELSE ShowExtents(g)

\* lines 1413-1421: the view is reset, the preset of the file applied and
\* the slice drawn
ResetAndDraw(g) ==
    IF g.exc THEN g
    ELSE RedrawUnlessRaised(apply_session_preset(update_wl_ui_enabled(ResetZoomPan(g))))

\* lines 1360-1421: what follows the loading, with la the array loaded
StoreAndShow(la) ==
    IF la.g.exc THEN la.g
    ELSE ResetAndDraw(Extents([la.g EXCEPT !.state.volume =
                                  StoreVolume(la.g.state.current_file_type, la.arr)]))

\* the file of answer o is the one the array arr was read from
Source(arr, o) ==
    IF arr.is_none THEN NoSource
    ELSE [file_type |-> o.file_type, modality |-> o.modality]

Remember(la, o) ==
    IF la.g.exc THEN la
    ELSE [la EXCEPT !.g.history.loaded = Source(la.arr, o)]

load_current_file(g, o) == StoreAndShow(Remember(LoadArray(g, o), o))

\* lines 1271-1274
on_file_slider(g, val, o) ==
    load_current_file([g EXCEPT !.state.current_file_index = val], o)

\* file_slider.set(v): the scale keeps v within [0, max(0, len - 1)]
\* (line 309) and runs its command, on_file_slider (line 1276)
file_slider_set(g, v, o) ==
    LET c == Clip(v, 0, Max(0, NumFiles - 1))
    IN  Swallow(g, on_file_slider([g EXCEPT !.ui.file_slider = c], c, o))

\* lines 1278-1282
change_file(g, delta, o) ==
    LET new_idx == (g.state.current_file_index + delta) % NumFiles
    IN  load_current_file(
            file_slider_set([g EXCEPT !.state.current_file_index = new_idx],
                            new_idx, o),
            o)

\* lines 1448-1451
safe_change_file(g, delta, o) ==
    IF NumFiles <= 1 THEN Returned(g) ELSE change_file(g, delta, o)

\* lines 1501-1505: the end of create_viewer
startup(g, o) ==
    [load_current_file(file_slider_set(g, 0, o), o) EXCEPT !.ui.mainloop = TRUE]

---------------------------------------------------------------------------
(* The events of the viewer.  Each action is one Tk callback, run to its  *)
(* end; Tk runs no other callback in between.                              *)

\* MultiSliceTimeLogic.__init__, viewer_multi_logic.py lines 20-32; volume
\* is the shape of the array held, <<>> for None
Logic_init ==
    [current_file_index |-> 0, volume |-> <<>>, z_index |-> 0, t_index |-> 0,
     z_max |-> 1, t_max |-> 1, zoom_factor |-> ZoomUnit, zoom_enabled |-> FALSE]

\* the object after construction; pending and after_change are not fields
\* of the object: change_file has run since the last load_current_file,
\* and the last load_current_file followed a change_file
NewLogic == [self |-> Logic_init, pending |-> FALSE, after_change |-> FALSE]

\* no module function is called on its own
NoCall == [fn |-> "none", args |-> <<>>, done |-> FALSE, result |-> <<>>]

Init ==
    /\ state = InitState
    /\ settings = InitSettings
    /\ ui = InitUi
    /\ disk = [presets |-> [i \in 1..NumFiles |-> NoPreset]]
    /\ history = InitHistory
    /\ last_event = [name |-> "create_viewer", exc |-> FALSE, acted |-> FALSE,
                     o |-> NoOutcome, pre_neutral |-> TRUE]
    /\ call = NoCall
    /\ logic = NewLogic

\* zoom and pan are the ones of a fresh view
Neutral(st) == st.zoom_factor = ZoomUnit /\ st.pan_x = 0 /\ st.pan_y = 0

\* the handler name has run on file answer o and left the world g;
\* last_event remembers which handler it was, whether it raised (exc),
\* whether it went past its early returns (acted), and whether the view was
\* neutral when it started
ApplyLoad(g, name, o) ==
    /\ state' = g.state
    /\ settings' = g.settings
    /\ ui' = g.ui
    /\ disk' = g.disk
    /\ history' = g.history
    /\ last_event' = [name |-> name, exc |-> g.exc, acted |-> g.acted,
                      o |-> o, pre_neutral |-> Neutral(state)]
    /\ call' = call
    /\ logic' = logic

Apply(g, name) == ApplyLoad(g, name, NoOutcome)

Origin == <<0, 0>>
DragPoints == {Origin, <<DragX, -DragY>>}
FrameSizes == {<<1, 1>>, <<FrameW, FrameH>>}

\* What the user does in the sessions of one specification: the files met
\* (outcomes), how far the wheel is turned (zoom_lo, zoom_hi), where the
\* pointer is pressed (down) and how far the image is dragged (max_pan)
Env(outcomes, zoom_lo, zoom_hi, down, max_pan) ==
    [outcomes |-> outcomes, zoom_lo |-> zoom_lo, zoom_hi |-> zoom_hi,
     down |-> down, max_pan |-> max_pan]

\* the end of create_viewer: the first loads
Startup(env) ==
    /\ ~ui.mainloop
    /\ \E o \in env.outcomes : ApplyLoad(startup(World, o), "startup", o)

\* the zoom check button: Tk flips zoom_var, then calls toggle_zoom
ToggleZoomClick ==
    /\ ui.mainloop
    /\ Apply(toggle_zoom([World EXCEPT !.ui.zoom_var = ~@]), "toggle_zoom")

\* the "Reset Zoom/Pan" button and the r key
ResetViewClick ==
    /\ ui.mainloop
    /\ Apply(reset_view(World), "reset_view")

WheelAllowed(env, delta) ==
    IF delta > 0 THEN state.zoom_factor < env.zoom_hi
                 ELSE state.zoom_factor > env.zoom_lo

\* <MouseWheel>
MouseWheel(env) ==
    /\ ui.mainloop
    /\ \E delta \in {-1, 1} :
          /\ WheelAllowed(env, delta)
          /\ Apply(on_mouse_wheel(World, delta), "on_mouse_wheel")

\* <Button-4> and <Button-5>
ScrollZoom(env) ==
    /\ ui.mainloop
    /\ \E direction \in {-1, 1} :
          /\ WheelAllowed(env, direction)
          /\ Apply(scroll_zoom(World, direction), "scroll_zoom")

\* <Button-1> on the image
LeftDown(env) ==
    /\ ui.mainloop
    /\ \E p \in env.down : Apply(on_left_down(World, p[1], p[2]), "on_left_down")

\* the drag to (x, y) pans the image no further than env.max_pan
DragWithin(env, x, y) ==
    \/ ~state.dragging
    \/ ~state.zoom_enabled
    \/ /\ Abs(DragPan(state, x, y)[1]) <= env.max_pan
       /\ Abs(DragPan(state, x, y)[2]) <= env.max_pan

\* <B1-Motion>
LeftDrag(env) ==
    /\ ui.mainloop
    /\ \E p \in DragPoints :
          /\ DragWithin(env, p[1], p[2])
          /\ Apply(on_left_drag(World, p[1], p[2]), "on_left_drag")

\* <ButtonRelease-1>
LeftUp ==
    /\ ui.mainloop
    /\ Apply(on_left_up(World), "on_left_up")

\* the user drags the Z slider, which is on screen
ZSliderDrag ==
    /\ ui.mainloop
    /\ ui.z_slider.mapped
    /\ \E val \in 0..ui.z_slider.to :
          Apply(on_z_change([World EXCEPT !.ui.z_slider.value = val], val),
                "on_z_change")

TSliderDrag ==
    /\ ui.mainloop
    /\ ui.t_slider.mapped
    /\ \E val \in 0..ui.t_slider.to :
          Apply(on_t_change([World EXCEPT !.ui.t_slider.value = val], val),
                "on_t_change")

\* <Up> and <Down>
KeyChangeZ ==
    /\ ui.mainloop
    /\ \E delta \in {-1, 1} : Apply(safe_change_z(World, delta), "_safe_change_z")

\* <Prior> and <Next>
KeyChangeT ==
    /\ ui.mainloop
    /\ \E delta \in {-1, 1} : Apply(safe_change_t(World, delta), "_safe_change_t")

\* the user drags the file slider
FileSliderDrag(env) ==
    /\ ui.mainloop
    /\ \E val \in 0..Max(0, NumFiles - 1), o \in env.outcomes :
          ApplyLoad(on_file_slider([World EXCEPT !.ui.file_slider = val], val, o),
                    "on_file_slider", o)

\* "<< Prev File" and "Next File >>"
ChangeFileClick(env) ==
    /\ ui.mainloop
    /\ \E delta \in {-1, 1}, o \in env.outcomes :
          ApplyLoad(change_file(World, delta, o), "change_file", o)

\* <Left> and <Right>
KeyChangeFile(env) ==
    /\ ui.mainloop
    /\ \E delta \in {-1, 1}, o \in env.outcomes :
          ApplyLoad(safe_change_file(World, delta, o), "_safe_change_file", o)

\* lines 1426-1440, <Configure> of the window: the frame takes a new size
\* and one redraw is scheduled
RootResize ==
    /\ ui.mainloop
    /\ \E wh \in FrameSizes :
          Apply([World EXCEPT !.ui.frame_wh = wh,
                              !.ui.resize_pending = TRUE,
                              !.acted = ~ui.resize_pending],
                "on_root_resize")

\* lines 1433-1438: the scheduled redraw, which catches what the redraw raises
DoRedraw ==
    /\ ui.mainloop
    /\ ui.resize_pending
    /\ Apply(Swallow(World,
                     display_current_slice([World EXCEPT !.ui.resize_pending = FALSE])),
             "do_redraw")

\* lines 389-398: the colormap check button; Tk flips its variable, then
\* runs display_current_slice
ColormapClick ==
    /\ ui.mainloop
    /\ Apply(display_current_slice([World EXCEPT !.settings.colormap = ~@]),
             "colormap")

\* the overlay check button and the o key (line 1474)
ToggleOverlayClick ==
    /\ ui.mainloop
    /\ Apply(toggle_overlay([World EXCEPT !.ui.overlay_var = ~@]), "toggle_overlay")

\* "Load Mask", with the file the user picks among paths
LoadMaskDialog(paths) ==
    /\ ui.mainloop
    /\ \E mask_path \in paths :
          Apply(load_mask_dialog(World, mask_path), "load_mask_dialog")

\* "Clear Mask"
ClearMask ==
    /\ ui.mainloop
    /\ Apply(clear_mask(World), "clear_mask")

\* a label check box of the "Label visibility" list, line 677: Tk flips the
\* BooleanVar, then calls on_label_visibility_change
LabelVisibilityClick ==
    /\ ui.mainloop
    /\ \E lbl \in DOMAIN ui.label_vars :
          Apply(on_label_visibility_change(
                    [World EXCEPT !.ui.label_vars[lbl] = ~@], lbl),
                "on_label_visibility_change")

\* the buttons "All" and "None", lines 854-855
SetAllLabelsClick ==
    /\ ui.mainloop
    /\ \E val \in BOOLEAN : Apply(set_all_labels(World, val), "set_all_labels")

\* the button "Invert", line 856
InvertLabelsClick ==
    /\ ui.mainloop
    /\ Apply(invert_labels(World), "invert_labels")

\* the scale "Overlay Alpha (%)", dragged to one of the values alphas
AlphaDrag(alphas) ==
    /\ ui.mainloop
    /\ \E val \in alphas : Apply(on_alpha_change(World, val), "on_alpha_change")

\* the check button "Overlay Outline Only"
OutlineClick ==
    /\ ui.mainloop
    /\ Apply(toggle_outline([World EXCEPT !.ui.outline_var = ~@]), "toggle_outline")

\* the check button "Enable Window/Level", which _update_wl_ui_enabled
\* disables for RGB pictures
WlEnableClick ==
    /\ ui.mainloop
    /\ ui.wl_controls = "normal"
    /\ Apply(display_current_slice([World EXCEPT !.settings.wl_enabled = ~@]),
             "wl_enabled")

\* the buttons "Soft tissue", "Lung" and "Bone", while they are enabled
CtPresetClick ==
    /\ ui.mainloop
    /\ ui.ct_presets = "normal"
    /\ \E name \in DOMAIN WL_PRESETS_CT :
          Apply(apply_ct_preset(World, name), "_apply_ct_preset")

\* the button "Auto", on a slice of the values lo..hi
AutoWlClick(ranges) ==
    /\ ui.mainloop
    /\ \E r \in ranges :
          Apply(auto_wl_now(World, auto_window_level_from_slice(r[1], r[2], r[1], r[2])),
                "_auto_wl_now")

\* the button "Reset Preprocessing" and the p key
ResetPreprocessingClick ==
    /\ ui.mainloop
    /\ Apply(reset_preprocessing(World), "reset_preprocessing")

\* the button "Save Preset", pressed once in a session
SavePresetClick ==
    /\ ui.mainloop
    /\ \A i \in DOMAIN disk.presets : disk.presets[i].is_none
    /\ Apply(save_session_preset(World), "save_session_preset")

\* the button "Apply Preset"
ApplyPresetClick ==
    /\ ui.mainloop
    /\ Apply(apply_session_preset(World), "apply_session_preset")

ZoomEvents(env) ==
    \/ ToggleZoomClick
    \/ ResetViewClick
    \/ MouseWheel(env)
    \/ ScrollZoom(env)

PanEvents(env) ==
    \/ LeftDown(env)
    \/ LeftDrag(env)
    \/ LeftUp

SliceEvents ==
    \/ ZSliderDrag
    \/ TSliderDrag
    \/ KeyChangeZ
    \/ KeyChangeT

---------------------------------------------------------------------------
(* Browsing: every kind of file, and the slices of each *)

BrowseEnv == Env(LoadOutcomes, ZoomUnit, ZoomUnit, {}, 0)

Next ==
    \/ Startup(BrowseEnv)
    \/ FileSliderDrag(BrowseEnv)
    \/ ChangeFileClick(BrowseEnv)
    \/ KeyChangeFile(BrowseEnv)
    \/ SliceEvents

Spec == Init /\ [][Next]_vars

---------------------------------------------------------------------------
(* Viewing: a 4-D volume and an RGB picture, zoomed and panned *)

ViewOutcomes ==
    { Plain("NIfTI", FALSE, <<ImgH, ImgW, 2, 2>>),
      Plain("JPEG/PNG", FALSE, <<ImgH, ImgW, 3>>) }

ViewEnv == Env(ViewOutcomes, ZoomUnit, ZoomUnit + MaxWheel, DragPoints, MaxPan * PanUnit)

NextView ==
    \/ Startup(ViewEnv)
    \/ KeyChangeFile(ViewEnv)
    \/ ZoomEvents(ViewEnv)
    \/ PanEvents(ViewEnv)
    \/ SliceEvents

SpecView == Init /\ [][NextView]_vars

---------------------------------------------------------------------------
(* Zooming: the wheel is turned as far as it goes; the pointer is pressed  *)
(* and released without moving the image                                   *)

ZoomEnv == Env(ViewOutcomes, 0, ZoomMax + 1, {Origin}, 0)

NextZoom ==
    \/ Startup(ZoomEnv)
    \/ FileSliderDrag(ZoomEnv)
    \/ ChangeFileClick(ZoomEnv)
    \/ KeyChangeFile(ZoomEnv)
    \/ ZoomEvents(ZoomEnv)
    \/ PanEvents(ZoomEnv)
    \/ SliceEvents

SpecZoom == Init /\ [][NextZoom]_vars

---------------------------------------------------------------------------
(* Reloading: files that load and files that do not, opened while the     *)
(* view is zoomed by one wheel step and dragged from the origin            *)

ReloadOutcomes ==
    { Plain("NIfTI", FALSE, <<ImgH, ImgW, 2, 2>>),
      Plain("JPEG/PNG", FALSE, <<ImgH, ImgW, 3>>),
      Plain("None", TRUE, <<>>),
      Outcome("DICOM", TRUE, <<>>, "", TRUE, <<>>),
      Plain("NIfTI", TRUE, <<>>) }

ReloadEnv == Env(ReloadOutcomes, ZoomUnit, ZoomUnit + 1, {Origin}, MaxPan * PanUnit)

NextReload ==
    \/ Startup(ReloadEnv)
    \/ FileSliderDrag(ReloadEnv)
    \/ ChangeFileClick(ReloadEnv)
    \/ KeyChangeFile(ReloadEnv)
    \/ ToggleZoomClick
    \/ MouseWheel(ReloadEnv)
    \/ LeftDown(ReloadEnv)
    \/ LeftDrag(ReloadEnv)
    \/ KeyChangeZ

SpecReload == Init /\ [][NextReload]_vars

---------------------------------------------------------------------------
(* Overlay sessions: one 4-D volume, the masks, the colormap switch, the   *)
(* window resized and redrawn                                              *)

OverlayOutcomes == { Plain("NIfTI", FALSE, <<ImgH, ImgW, 2, 2>>) }

OverlayEnv ==
    Env(OverlayOutcomes, ZoomUnit, ZoomUnit + OverlayWheel, {Origin}, MaxPan * PanUnit)

NextOverlay ==
    \/ Startup(OverlayEnv)
    \/ ToggleZoomClick
    \/ MouseWheel(OverlayEnv)
    \/ LeftDown(OverlayEnv)
    \/ LeftDrag(OverlayEnv)
    \/ RootResize
    \/ DoRedraw
    \/ ColormapClick
    \/ ToggleOverlayClick
    \/ LoadMaskDialog(MaskPaths \ {"binary.png"})
    \/ ClearMask

SpecOverlay == Init /\ [][NextOverlay]_vars

---------------------------------------------------------------------------
(* Properties *)

---------------------------------------------------------------------------
(* Masks and labels: a 4-D volume and a plane of the size of the small     *)
(* mask, slice and file changes, mask loads and the label visibility list  *)

MaskOutcomes ==
    { Plain("NIfTI", FALSE, <<ImgH, ImgW, 2, 2>>),
      Plain("NIfTI", FALSE, <<2, 2>>) }

MaskEnv == Env(MaskOutcomes, ZoomUnit, ZoomUnit, {Origin}, 0)

NextMask ==
    \/ Startup(MaskEnv)
    \/ KeyChangeFile(MaskEnv)
    \/ KeyChangeZ
    \/ ColormapClick
    \/ ToggleOverlayClick
    \/ LoadMaskDialog(MaskPaths)
    \/ ClearMask
    \/ LabelVisibilityClick
    \/ SetAllLabelsClick
    \/ InvertLabelsClick

SpecMask == Init /\ [][NextMask]_vars

---------------------------------------------------------------------------
(* Window/level sessions: CT and MR series, a DICOM file read by the       *)
(* single-file loader, a NIfTI vector and an RGB picture; the window/level *)
(* buttons                                                                 *)

\* the window the CT series declares
DeclaredCenter == 50
DeclaredWidth == 350

WlOutcomes ==
    { Declared(Outcome("DICOM", FALSE, <<ImgH, ImgW, 2>>, "CT", FALSE, <<ImgH, ImgW>>),
               DeclaredCenter, DeclaredWidth),
      Outcome("DICOM", FALSE, <<ImgH, ImgW, 2>>, "MR", FALSE, <<ImgH, ImgW>>),
      Outcome("DICOM", TRUE, <<>>, "", FALSE, <<ImgH, ImgW>>),
      Plain("NIfTI", FALSE, <<ImgH>>),
      Plain("JPEG/PNG", FALSE, <<ImgH, ImgW, 3>>) }

WlEnv == Env(WlOutcomes, ZoomUnit, ZoomUnit, {Origin}, 0)

\* the least and greatest value of the slices "Auto" is pressed on
AutoRanges == {<<0, 0>>, <<0, 3>>}

NextWl ==
    \/ Startup(WlEnv)
    \/ KeyChangeFile(WlEnv)
    \/ KeyChangeZ
    \/ WlEnableClick
    \/ CtPresetClick
    \/ AutoWlClick(AutoRanges)
    \/ ResetPreprocessingClick

SpecWl == Init /\ [][NextWl]_vars

---------------------------------------------------------------------------
(* Picture sessions: a CT series and an RGB picture, the window/level      *)
(* buttons, the keys and the session presets                               *)

RgbOutcomes ==
    { Declared(Outcome("DICOM", FALSE, <<ImgH, ImgW, 2>>, "CT", FALSE, <<ImgH, ImgW>>),
               DeclaredCenter, DeclaredWidth),
      Plain("JPEG/PNG", FALSE, <<ImgH, ImgW, 3>>) }

RgbEnv == Env(RgbOutcomes, ZoomUnit, ZoomUnit, {Origin}, 0)

NextRgb ==
    \/ Startup(RgbEnv)
    \/ KeyChangeFile(RgbEnv)
    \/ KeyChangeZ
    \/ KeyChangeT
    \/ WlEnableClick
    \/ CtPresetClick
    \/ AutoWlClick({<<0, 3>>})
    \/ ResetPreprocessingClick
    \/ SavePresetClick
    \/ ApplyPresetClick

SpecRgb == Init /\ [][NextRgb]_vars

---------------------------------------------------------------------------
(* Preset sessions: 4-D volumes, the overlay settings changed, the preset  *)
(* of a file saved, and files opened again                                 *)

\* the value the alpha scale is dragged to
Alphas == {50}

PresetEnv == Env(OverlayOutcomes, ZoomUnit, ZoomUnit, {Origin}, 0)

NextPreset ==
    \/ Startup(PresetEnv)
    \/ FileSliderDrag(PresetEnv)
    \/ ColormapClick
    \/ AlphaDrag(Alphas)
    \/ OutlineClick
    \/ LoadMaskDialog({"binary.png"})
    \/ ToggleOverlayClick
    \/ LabelVisibilityClick
    \/ SavePresetClick
    \/ ApplyPresetClick

SpecPreset == Init /\ [][NextPreset]_vars

---------------------------------------------------------------------------
(* Module functions called on their own: the arguments of the call are     *)
(* drawn from a bounded set and the function is applied to them            *)

\* image_loader.py line 40: the suffixes tried with OpenSlide first
WsiSuffixes == {".svs", ".scn", ".mrxs", ".ndpi", ".vms", ".bif"}

\* what the libraries answer for a file.  openslide and nifti are "ok" or
\* "raises"; openslide_again is the answer to the second OpenSlide call;
\* dicom is "ok", "raises", or "falsy" for a dataset dcmread returns that is
\* empty; pillow is the format Image.open finds, or "raises"
Files ==
    [ext : {".svs", ".bif", ".dcm", ""},
     OPENSLIDE_AVAILABLE : BOOLEAN,
     openslide : {"ok", "raises"},
     openslide_again : {"ok", "raises"},
     dicom : {"ok", "falsy", "raises"},
     nifti : {"ok", "raises"},
     pillow : {"JPEG", "PNG", "TIFF", "BMP", "raises"}]

\* the mutant of detect_file_type_and_metadata that tries NIfTI before DICOM
detect_nifti_first(f) ==
    IF f.OPENSLIDE_AVAILABLE /\ f.ext \in WsiSuffixes /\ f.openslide = "ok"
    THEN [exc |-> FALSE, file_type |-> "WHOLESLIDE", meta |-> "Whole Slide Image"]
    ELSE IF f.nifti = "ok"
    THEN [exc |-> FALSE, file_type |-> "NIfTI", meta |-> "NIfTI Info"]
    ELSE IF f.dicom = "ok"
    THEN [exc |-> FALSE, file_type |-> "DICOM", meta |-> "DICOM Info"]
    ELSE IF f.pillow \in {"JPEG", "PNG"}
    THEN [exc |-> FALSE, file_type |-> "JPEG/PNG", meta |-> "JPEG/PNG Info"]
    ELSE IF f.pillow = "TIFF"
    THEN [exc |-> FALSE, file_type |-> "TIFF", meta |-> "TIFF Info"]
    ELSE IF f.OPENSLIDE_AVAILABLE /\ f.openslide_again = "ok"
    THEN [exc |-> FALSE, file_type |-> "WHOLESLIDE", meta |-> "Whole Slide Image"]
    ELSE [exc |-> FALSE, file_type |-> "None",
          meta |-> "Error: Unknown or unsupported file format."]

\* image_loader.detect_file_type_and_metadata, lines 24-147, of a path that
\* is a string; every library call is inside a try whose except prints and
\* goes on
detect_file_type_and_metadata(f) ==
    \* lines 40-56
    IF f.OPENSLIDE_AVAILABLE /\ f.ext \in WsiSuffixes /\ f.openslide = "ok"
    THEN [exc |-> FALSE, file_type |-> "WHOLESLIDE", meta |-> "Whole Slide Image"]
    \* lines 59-80
    ELSE IF f.dicom = "ok"
    THEN [exc |-> FALSE, file_type |-> "DICOM", meta |-> "DICOM Info"]
    \* lines 83-99
    ELSE IF f.nifti = "ok"
    THEN [exc |-> FALSE, file_type |-> "NIfTI", meta |-> "NIfTI Info"]
    \* lines 102-124
    ELSE IF f.pillow \in {"JPEG", "PNG"}
    THEN [exc |-> FALSE, file_type |-> "JPEG/PNG", meta |-> "JPEG/PNG Info"]
    ELSE IF f.pillow = "TIFF"
    THEN [exc |-> FALSE, file_type |-> "TIFF", meta |-> "TIFF Info"]
    \* lines 127-144
    ELSE IF f.OPENSLIDE_AVAILABLE /\ f.openslide_again = "ok"
    THEN [exc |-> FALSE, file_type |-> "WHOLESLIDE", meta |-> "Whole Slide Image"]
    \* lines 146-147
    ELSE [exc |-> FALSE, file_type |-> "None",
          meta |-> "Error: Unknown or unsupported file format."]

\* A DICOM folder: files[i] is the i-th name of sorted(os.listdir(folder)),
\* ref the place of the chosen file in it.  A tag that is absent is <<>>, a
\* tag with the value v is <<v>> (positions and orientations are the tuples
\* themselves); pixel is the shape of pixel_array, <<>> when the file has no
\* PixelData or pixel_array raises; in_series tells that the header is read,
\* has the SeriesInstanceUID of the chosen file and has Rows and Columns.

\* the mutant of series_sort_key that looks at InstanceNumber first
series_sort_key_instance(h, fallback_name) ==
    IF h.InstanceNumber # <<>>
    THEN <<2, h.InstanceNumber[1]>>
    ELSE IF h.SliceLocation # <<>>
    THEN <<1, h.SliceLocation[1]>>
    ELSE <<3, fallback_name>>

\* image_loader._series_sort_key, lines 185-223
series_sort_key(h, fallback_name) ==
    IF Len(h.ImagePositionPatient) = 3 /\ Len(h.ImageOrientationPatient) = 6
    THEN LET iop == h.ImageOrientationPatient
             ipp == h.ImagePositionPatient
             nx == iop[2] * iop[6] - iop[3] * iop[5]
             ny == iop[3] * iop[4] - iop[1] * iop[6]
             nz == iop[1] * iop[5] - iop[2] * iop[4]
         IN  <<0, ipp[1] * nx + ipp[2] * ny + ipp[3] * nz>>
    ELSE IF h.SliceLocation # <<>>
    THEN <<1, h.SliceLocation[1]>>
    ELSE IF h.InstanceNumber # <<>>
    THEN <<2, h.InstanceNumber[1]>>
    ELSE <<3, fallback_name>>

\* the order of Python's tuples (rank, value)
KeyBefore(k1, k2) == k1[1] < k2[1] \/ (k1[1] = k2[1] /\ k1[2] < k2[2])

\* lines 305-321: the files of the folder that are slices of the series
Candidates(files) == {i \in 1..Len(files) : files[i].in_series}

\* line 351, candidates.sort(key=...): the place of candidate i after the
\* stable sort of the candidates, which start in the order of their names
SortedPlace(files, i) ==
    1 + Cardinality({j \in Candidates(files) :
            \/ KeyBefore(series_sort_key(files[j], j), series_sort_key(files[i], i))
            \/ (series_sort_key(files[j], j) = series_sort_key(files[i], i) /\ j < i)})

SortedCandidates(files) ==
    [r \in 1..Cardinality(Candidates(files)) |->
        CHOOSE i \in Candidates(files) : SortedPlace(files, i) = r]

\* lines 354-388: the slices stacked, in the order given; a file without
\* readable pixels, with pixels that are not 2-D or with another shape than
\* the first slice is skipped
RECURSIVE LoadSlices(_, _, _, _)
LoadSlices(files, order, first_shape, slices) ==
    IF order = <<>>
    THEN [first_shape |-> first_shape, slices |-> slices]
    ELSE IF \/ Len(files[Head(order)].pixel) # 2
            \/ (first_shape # <<>> /\ files[Head(order)].pixel # first_shape)
    THEN LoadSlices(files, Tail(order), first_shape, slices)
    ELSE LoadSlices(files, Tail(order), files[Head(order)].pixel,
                    Append(slices, Head(order)))

\* lines 251-272 and 324-348: the chosen file alone, as (H, W, 1)
SingleFile(d, kind) ==
    IF d.files[d.ref].pixel = <<>>
    THEN [exc |-> TRUE, kind |-> kind, shape |-> <<>>, slices |-> <<>>]
    ELSE [exc |-> FALSE, kind |-> kind,
          shape |-> Append(d.files[d.ref].pixel, 1), slices |-> <<d.ref>>]

\* lines 280-302: a multi-frame file, frames moved to the last axis
MultiFrame(d) ==
    IF d.files[d.ref].pixel = <<>>
    THEN [exc |-> TRUE, kind |-> "multi-frame", shape |-> <<>>, slices |-> <<>>]
    ELSE [exc |-> FALSE, kind |-> "multi-frame",
          shape |-> IF Len(d.files[d.ref].pixel) = 3
                    THEN <<d.files[d.ref].pixel[2], d.files[d.ref].pixel[3],
                           d.files[d.ref].pixel[1]>>
                    ELSE d.files[d.ref].pixel,
          slices |-> <<d.ref>>]

\* lines 390-421: the stack of the slices loaded, or RuntimeError when
\* there is none
Stack(loaded) ==
    IF loaded.slices = <<>>
    THEN [exc |-> TRUE, kind |-> "series", shape |-> <<>>, slices |-> <<>>]
    ELSE [exc |-> FALSE, kind |-> "series",
          shape |-> Append(loaded.first_shape, Len(loaded.slices)),
          slices |-> loaded.slices]

\* image_loader.load_dicom_series_from_file, lines 226-421: slices are the
\* files the volume is made of, in the order of its last axis
load_dicom_series_from_file(d) ==
    IF d.header = "raises"
    THEN [exc |-> TRUE, kind |-> "header", shape |-> <<>>, slices |-> <<>>]
    ELSE IF d.SeriesInstanceUID = <<>>
    THEN SingleFile(d, "single file")
    ELSE IF d.NumberOfFrames > 1
    THEN MultiFrame(d)
    ELSE IF Candidates(d.files) = {}
    THEN SingleFile(d, "single file fallback")
    ELSE Stack(LoadSlices(d.files, SortedCandidates(d.files), <<>>, <<>>))

\* the names globals() holds inside image_loader.py: what the module
\* imports (lines 3-9, 17), assigns (lines 18, 21) and defines
Globals ==
    {"os", "warnings", "pydicom", "nib", "np", "Image", "ImageFile", "math",
     "openslide", "OPENSLIDE_AVAILABLE",
     "detect_file_type_and_metadata", "get_dicom_series_uid",
     "_dicom_has_pixels", "_safe_float", "_safe_int", "_series_sort_key",
     "load_dicom_series_from_file", "load_dicom_auto",
     "load_whole_slide_downsampled", "detect_file_type", "load_dicom",
     "load_nifti", "load_jpeg_png", "load_tiff", "load_any_image"}

\* image_loader.load_dicom, lines 466-468, on the chosen file of folder d:
\* the pixels of that file alone, or the exception of reading them (the
\* scaling of lines 469-473 keeps the shape)
load_dicom_single(d) ==
    IF d.header = "raises" \/ d.files[d.ref].pixel = <<>>
    THEN [exc |-> TRUE, via |-> "load_dicom", shape |-> <<>>]
    ELSE [exc |-> FALSE, via |-> "load_dicom", shape |-> d.files[d.ref].pixel]

\* image_loader.load_dicom_auto, lines 423-433: the series loader is called
\* when globals() holds the name "load_dicom_series", and its result
\* returned unless it raises; otherwise load_dicom
load_dicom_auto(d) ==
    IF "load_dicom_series" \in Globals /\ ~load_dicom_series_from_file(d).exc
    THEN [exc |-> FALSE, via |-> "load_dicom_series_from_file",
          shape |-> load_dicom_series_from_file(d).shape]
    ELSE load_dicom_single(d)

\* the orientations of a series: none, axial, axial with the column
\* direction reversed, sagittal
Orientations ==
    {<<>>, <<1, 0, 0, 0, 1, 0>>, <<1, 0, 0, 0, -1, 0>>, <<0, 1, 0, 0, 0, 1>>}

SliceTags ==
    [ImagePositionPatient : {<<>>, <<0, 0, 1>>, <<1, 0, 2>>},
     SliceLocation : {<<>>, <<1>>, <<2>>},
     InstanceNumber : {<<1>>, <<2>>}]

\* folders whose files are all 2-D slices of the series of the chosen file,
\* with every combination of the tags above
TaggedFolders ==
    {[header |-> "ok", SeriesInstanceUID |-> <<"S">>, NumberOfFrames |-> 1, ref |-> 1,
      files |-> [i \in 1..SeriesLen |->
                   [in_series |-> TRUE,
                    ImageOrientationPatient |-> iop,
                    ImagePositionPatient |-> t[i].ImagePositionPatient,
                    SliceLocation |-> t[i].SliceLocation,
                    InstanceNumber |-> t[i].InstanceNumber,
                    pixel |-> <<2, 2>>]]] :
        iop \in Orientations, t \in [1..SeriesLen -> SliceTags]}

\* folders of files without sorting tags: a chosen file with or without a
\* series identity, single or multi-frame, and files that are of the series
\* or not, with 2-D pixels of two shapes, color pixels, or none
MixedFolders ==
    {[header |-> hd, SeriesInstanceUID |-> uid, NumberOfFrames |-> n, ref |-> r,
      files |-> [i \in 1..SeriesLen |->
                   [in_series |-> (m[i] \/ i = r),
                    ImageOrientationPatient |-> <<>>,
                    ImagePositionPatient |-> <<>>,
                    SliceLocation |-> <<>>,
                    InstanceNumber |-> <<>>,
                    pixel |-> px[i]]]] :
        hd \in {"ok", "raises"}, uid \in {<<>>, <<"S">>}, n \in {1, 2},
        r \in 1..SeriesLen,
        m \in [1..SeriesLen -> BOOLEAN],
        px \in [1..SeriesLen -> {<<>>, <<2, 2>>, <<3, 3>>, <<2, 2, 3>>}]}

SeriesCalls ==
    [fn : {"load_dicom_series_from_file", "load_dicom_auto"}, args : TaggedFolders \cup MixedFolders,
     done : {FALSE}, result : {<<>>}]

\* np.min and np.max of a plane
PlaneMin(m) == CHOOSE v \in PlaneValues(m) : \A u \in PlaneValues(m) : v <= u
PlaneMax(m) == CHOOSE v \in PlaneValues(m) : \A u \in PlaneValues(m) : v >= u

\* the mutant of SliceRange that takes the extremes of the whole volume
SliceRange_volume(vol, z_index) ==
    [mn |-> Min(PlaneMin(vol[1]), PlaneMin(vol[2])),
     mx |-> Max(PlaneMax(vol[1]), PlaneMax(vol[2]))]

\* viewer lines 1166 and 1175: mn and mx of the slice vol[..., z_index]
SliceRange(vol, z_index) ==
    [mn |-> PlaneMin(vol[z_index + 1]), mx |-> PlaneMax(vol[z_index + 1])]

\* viewer lines 1176-1179: (slice_src - mn) / (mx - mn) * 255.0, each pixel
\* as the fraction num / den, or zeros
Normalize(slice_src, r) ==
    [y \in 1..PlaneH(slice_src) |->
       [x \in 1..PlaneW(slice_src) |->
          IF r.mx > r.mn
          THEN [num |-> (slice_src[y][x] - r.mn) * 255, den |-> r.mx - r.mn]
          ELSE [num |-> 0, den |-> 1]]]

\* viewer lines 1166-1179 with window/level off: the frame of slice z_index
generic_normalization(vol, z_index) ==
    Normalize(vol[z_index + 1], SliceRange(vol, z_index))

\* volumes of two slices of one row
NormalizeCalls ==
    [fn : {"generic_normalization"},
     args : [vol : [1..2 -> [1..1 -> [1..NormW -> (-1)..MaxNorm]]], z_index : 0..1],
     done : {FALSE}, result : {<<>>}]

\* image_loader.load_dicom, lines 469-473, on the pixels of the file in
\* row-major order: (img_array - min_val) / (max_val - min_val) * 255 when
\* the extremes differ, each pixel as the fraction num / den; otherwise the
\* pixels as they were read
load_dicom(img_array) ==
    LET values == {img_array[i] : i \in 1..Len(img_array)}
        min_val == CHOOSE v \in values : \A u \in values : v <= u
        max_val == CHOOSE v \in values : \A u \in values : v >= u
    IN  [i \in 1..Len(img_array) |->
            IF max_val # min_val
            THEN [num |-> (img_array[i] - min_val) * 255, den |-> max_val - min_val]
            ELSE [num |-> img_array[i], den |-> 1]]

\* stored pixel values below, inside and above 0..255
RawValues == {-1, 0, 1, 255, MaxRaw}

DicomCalls ==
    [fn : {"load_dicom"}, args : [1..RawLen -> RawValues],
     done : {FALSE}, result : {<<>>}]

\* (x - low) / (high - low), clipped to [0, 1], times 255 (viewer lines
\* 1146-1147, image_processing.py lines 157-158), as the fraction num / den.
\* Dividing by 0.0 gives inf, -inf or, for 0.0 / 0.0, nan, which np.clip
\* leaves as it is.
WindowMap(x, low, high) ==
    IF high = low
    THEN [nan |-> x = low, num |-> IF x > low THEN 255 ELSE 0, den |-> 1,
          divisor |-> 0]
    ELSE [nan |-> FALSE,
          num |-> 255 * Clip(IF high > low THEN x - low ELSE low - x,
                             0, Abs(high - low)),
          den |-> Abs(high - low),
          divisor |-> high - low]

\* the mutant of apply_window_level_to_8bit with low and high exchanged
apply_window_level_to_8bit_swapped(img_hu, center, width) ==
    [i \in 1..Len(img_hu) |->
        WindowMap(2 * img_hu[i], 2 * center + Max(WlUnit, width),
                  2 * center - Max(WlUnit, width))]

\* viewer _apply_window_level_to_8bit, lines 1135-1148; img_hu is a row of
\* pixels; low and high are counted in 1/(2 WlUnit)
apply_window_level_to_8bit(img_hu, center, width) ==
    [i \in 1..Len(img_hu) |->
        WindowMap(2 * img_hu[i], 2 * center - Max(WlUnit, width),
                  2 * center + Max(WlUnit, width))]

\* image_processing.apply_window_level, lines 141-159: a width of at most
\* 1e-6 becomes 1.0; low = c - 0.5 - (w - 1) / 2, high = c - 0.5 + (w - 1) / 2
apply_window_level(slice_raw, center, width) ==
    LET w == IF width <= 0 THEN WlUnit ELSE width
    IN  [i \in 1..Len(slice_raw) |->
            WindowMap(2 * slice_raw[i],
                      2 * center - WlUnit - (w - WlUnit),
                      2 * center - WlUnit + (w - WlUnit))]

WindowCalls ==
    [fn : {"_apply_window_level_to_8bit", "apply_window_level"},
     args : [img : [1..2 -> (-MaxPixel)..MaxPixel],
             center : (-MaxCenter)..MaxCenter,
             width : (-WlUnit)..MaxWidth],
     done : {FALSE}, result : {<<>>}]

DetectCalls ==
    [fn : {"detect_file_type_and_metadata"}, args : Files,
     done : {FALSE}, result : {<<>>}]

\* a mask of the given shape whose plane (z, t) holds the label 10 z + t
\* (z and t counted from 1)
CallMask(shape) ==
    [is_none |-> FALSE,
     shape |-> shape,
     planes |-> [z \in 1..(IF Len(shape) >= 3 THEN shape[3] ELSE 1) |->
                   [t \in 1..(IF Len(shape) = 4 THEN shape[4] ELSE 1) |->
                      << <<10 * z + t, 0>>, <<0, 1>> >>]]]

GetMaskSliceCalls ==
    [fn : {"get_mask_slice"},
     args : [mask_vol : {CallMask(<<2, 2>>), CallMask(<<2, 2, MaskZ>>),
                         CallMask(<<2, 2, MaskZ, MaskT>>)},
             z_index : (-MaxIndex)..(MaskZ + MaxIndex),
             t_index : (-MaxIndex)..(MaskT + MaxIndex)],
     done : {FALSE},
     result : {<<>>}]

\* frames the viewer hands to the pipeline: a slice, a one-channel frame
\* and an RGB frame, at zoom 1.0 and 2.0
ProcessingCalls ==
    [fn : {"apply_all_processing"},
     args : [shape : {<<ImgH, ImgW>>, <<ImgH, ImgW, 1>>, <<ImgH, ImgW, 3>>},
             hist_eq : BOOLEAN, brightness_contrast : BOOLEAN,
             colormap : BOOLEAN, zoom_enabled : BOOLEAN,
             zoom_factor : {ZoomUnit, 2 * ZoomUnit}],
     done : {FALSE}, result : {<<>>}]

\* frames of up to MaxSide x MaxSide pixels, every zoom factor of the
\* viewer's range but 1.0, the centre moved up to CallPan pixels either way
ZoomPanCalls ==
    [fn : {"apply_zoom_and_pan"},
     args : [shape : (1..MaxSide) \X (1..MaxSide),
             zoom_factor : (ZoomMin..ZoomMax) \ {ZoomUnit},
             pan_x : (-CallPan * PanUnit)..(CallPan * PanUnit),
             pan_y : {-CallPan * PanUnit, 0, CallPan * PanUnit}],
     done : {FALSE}, result : {<<>>}]

Calls ==
    GetMaskSliceCalls \cup DetectCalls \cup SeriesCalls \cup NormalizeCalls
        \cup WindowCalls \cup ProcessingCalls \cup ZoomPanCalls
        \cup DicomCalls

InitCalls ==
    /\ state = InitState
    /\ settings = InitSettings
    /\ ui = InitUi
    /\ disk = [presets |-> [i \in 1..NumFiles |-> NoPreset]]
    /\ history = InitHistory
    /\ last_event = [name |-> "create_viewer", exc |-> FALSE, acted |-> FALSE,
                     o |-> NoOutcome, pre_neutral |-> TRUE]
    /\ call \in Calls
    /\ logic = NewLogic

\* the function called returns (or raises, as the result tells)
Return(result) ==
    /\ ~call.done
    /\ call' = [call EXCEPT !.done = TRUE, !.result = result]
    /\ UNCHANGED <<state, settings, ui, disk, history, last_event, logic>>

CallGetMaskSlice ==
    /\ call.fn = "get_mask_slice"
    /\ Return(get_mask_slice(call.args.mask_vol, call.args.z_index, call.args.t_index))

CallDetect ==
    /\ call.fn = "detect_file_type_and_metadata"
    /\ Return(detect_file_type_and_metadata(call.args))

CallLoadSeries ==
    /\ call.fn = "load_dicom_series_from_file"
    /\ Return(load_dicom_series_from_file(call.args))

CallNormalize ==
    /\ call.fn = "generic_normalization"
    /\ Return(generic_normalization(call.args.vol, call.args.z_index))

CallViewerWindow ==
    /\ call.fn = "_apply_window_level_to_8bit"
    /\ Return(apply_window_level_to_8bit(call.args.img, call.args.center, call.args.width))

CallWindow ==
    /\ call.fn = "apply_window_level"
    /\ Return(apply_window_level(call.args.img, call.args.center, call.args.width))

CallAllProcessing ==
    /\ call.fn = "apply_all_processing"
    /\ Return(apply_all_processing(call.args.shape, call.args.hist_eq,
                                   call.args.brightness_contrast,
                                   call.args.colormap, call.args.zoom_enabled,
                                   call.args.zoom_factor, 0, 0))

CallZoomPan ==
    /\ call.fn = "apply_zoom_and_pan"
    /\ Return(apply_zoom_and_pan(call.args.shape, call.args.zoom_factor,
                                 call.args.pan_x, call.args.pan_y))

CallLoadAuto ==
    /\ call.fn = "load_dicom_auto"
    /\ Return(load_dicom_auto(call.args))

CallLoadDicom ==
    /\ call.fn = "load_dicom"
    /\ Return(load_dicom(call.args))

NextCalls ==
    \/ CallGetMaskSlice
    \/ CallDetect
    \/ CallLoadSeries
    \/ CallNormalize
    \/ CallViewerWindow
    \/ CallWindow
    \/ CallAllProcessing
    \/ CallZoomPan
    \/ CallLoadAuto
    \/ CallLoadDicom

SpecCalls == InitCalls /\ [][NextCalls]_vars

---------------------------------------------------------------------------
(* viewer_multi_logic.py: the MultiSliceTimeLogic controller *)

\* lines 37-40
Logic_change_file(self, delta) ==
    [self EXCEPT !.current_file_index = (@ + delta) % NumFiles]

\* lines 62-65 and 69-72: a 2-D array gets two axes of length 1, a 3-D
\* array one
FourAxes(shape) ==
    IF Len(shape) = 2 THEN shape \o <<1, 1>>
    ELSE IF Len(shape) = 3 THEN Append(shape, 1)
    ELSE shape

\* lines 60-79: the array stored for a file of type o.file_type whose
\* loader returned an array of shape o.shape; <<>> is None
LogicVolume(o) ==
    IF o.file_type \in {"DICOM", "NIfTI"} THEN FourAxes(o.shape)
    ELSE IF o.file_type = "JPEG/PNG" THEN o.shape \o <<1, 1>>
    ELSE <<>>

\* lines 51-93: the object left behind and whether the call raised; the
\* loader raises (o.raises) before self.volume is assigned, shape_4d[2]
\* or shape_4d[3] raises IndexError after it
Logic_load_current_file(self, o) ==
    IF o.raises THEN [self |-> self, exc |-> TRUE]
    ELSE IF LogicVolume(o) = <<>>
    THEN [self |-> [self EXCEPT !.volume = <<>>, !.z_max = 1, !.t_max = 1],
          exc |-> FALSE]
    ELSE IF Len(LogicVolume(o)) < 3
    THEN [self |-> [self EXCEPT !.volume = LogicVolume(o)], exc |-> TRUE]
    ELSE IF Len(LogicVolume(o)) < 4
    THEN [self |-> [self EXCEPT !.volume = LogicVolume(o),
                                !.z_max = LogicVolume(o)[3]],
          exc |-> TRUE]
    ELSE [self |-> [self EXCEPT
                      !.volume = LogicVolume(o),
                      !.z_max = LogicVolume(o)[3],
                      !.t_max = LogicVolume(o)[4],
                      !.z_index = Min(LogicVolume(o)[3] \div 2, LogicVolume(o)[3] - 1),
                      !.t_index = Min(LogicVolume(o)[4] \div 2, LogicVolume(o)[4] - 1)],
          exc |-> FALSE]

\* lines 113-114
Logic_toggle_zoom(self, enabled) == [self EXCEPT !.zoom_enabled = enabled]

\* lines 116-124: one step of 1.1 and the clamp to [0.5, 10.0], the
\* arithmetic of WheelStep
Logic_on_wheel_zoom(self, direction) ==
    IF ~self.zoom_enabled THEN self
    ELSE [self EXCEPT !.zoom_factor = WheelStep(@, direction > 0)]

\* what the loaders answer for the files of the controller: a DICOM slice,
\* a 4-D and a one-axis NIfTI volume, a gray picture, a file that cannot
\* be read and one of no known type
LogicOutcomes ==
    { [file_type |-> "DICOM", raises |-> FALSE, shape |-> <<ImgH, ImgW>>],
      [file_type |-> "NIfTI", raises |-> FALSE, shape |-> <<ImgH, ImgW, 2, 2>>],
      [file_type |-> "NIfTI", raises |-> FALSE, shape |-> <<ImgH>>],
      [file_type |-> "JPEG/PNG", raises |-> FALSE, shape |-> <<ImgH, ImgW>>],
      [file_type |-> "DICOM", raises |-> TRUE, shape |-> <<>>],
      [file_type |-> "None", raises |-> FALSE, shape |-> <<>>] }

\* a method of the object has run and left it as self
LogicStep(self, name, exc, pending, after_change) ==
    /\ logic' = [self |-> self, pending |-> pending, after_change |-> after_change]
    /\ last_event' = [name |-> name, exc |-> exc, acted |-> TRUE,
                      o |-> NoOutcome,
                      pre_neutral |-> logic.self.zoom_factor = ZoomUnit]
    /\ UNCHANGED <<state, settings, ui, disk, history, call>>

LogicChangeFile ==
    \E delta \in {-1, 1} :
        LogicStep(Logic_change_file(logic.self, delta), "Logic_change_file",
                  FALSE, TRUE, logic.after_change)

LogicLoadCurrentFile ==
    \E o \in LogicOutcomes :
        LogicStep(Logic_load_current_file(logic.self, o).self,
                  "Logic_load_current_file",
                  Logic_load_current_file(logic.self, o).exc,
                  FALSE, logic.pending)

LogicToggleZoom ==
    \E enabled \in BOOLEAN :
        LogicStep(Logic_toggle_zoom(logic.self, enabled), "Logic_toggle_zoom",
                  FALSE, logic.pending, logic.after_change)

LogicOnWheelZoom ==
    \E direction \in {-1, 1} :
        LogicStep(Logic_on_wheel_zoom(logic.self, direction), "Logic_on_wheel_zoom",
                  FALSE, logic.pending, logic.after_change)

NextLogic ==
    \/ LogicChangeFile
    \/ LogicLoadCurrentFile
    \/ LogicToggleZoom
    \/ LogicOnWheelZoom

SpecLogic == Init /\ [][NextLogic]_vars

LoadHandlers == {"on_file_slider", "change_file", "_safe_change_file"}
SliceHandlers == {"on_z_change", "on_t_change", "_safe_change_z", "_safe_change_t"}
WheelHandlers == {"on_mouse_wheel", "scroll_zoom"}

\* C1 (SpecReload): a load_current_file that ran to its end, reached through
\* the file slider, change_file or the Left/Right keys, leaves
\* zoom_factor = 1.0 and pan_x = pan_y = 0, whatever they were before and
\* whether or not the file gave an array.
C1_LoadResetsZoomAndPan ==
    (last_event.name \in LoadHandlers /\ last_event.acted /\ ~last_event.exc)
        => Neutral(state)

\* a load of a file that gives no array ran to its end from a zoomed or
\* panned view
C1_FailedLoadFromMovedView ==
    /\ last_event.name \in LoadHandlers
    /\ last_event.acted
    /\ ~last_event.exc
    /\ ~last_event.pre_neutral
    /\ state.volume.is_none

\* C2 (SpecView): when toggle_zoom switches zoom off, zoom_factor is 1.0 and
\* pan is (0, 0) afterwards, and the frame that toggle rendered was drawn
\* with zoom factor 1.0 and pan (0, 0), uncropped.
C2_ToggleOffRendersNeutral ==
    (last_event.name = "toggle_zoom" /\ ~state.zoom_enabled)
        => /\ Neutral(state)
           /\ (~last_event.exc /\ ui.image.shown = "image")
                 => /\ ui.image.zoom_factor = ZoomUnit
                    /\ ui.image.pan_x = 0
                    /\ ui.image.pan_y = 0
                    /\ ~ui.image.zoomed

\* zoom was switched off from a zoomed or panned view and a frame was drawn
C2_ToggledOffFromMovedView ==
    /\ last_event.name = "toggle_zoom"
    /\ ~state.zoom_enabled
    /\ ~last_event.pre_neutral
    /\ ~last_event.exc
    /\ ui.image.shown = "image"

\* C3 (SpecView): every pan that on_left_drag writes is computed from a drag
\* origin recorded (by on_left_down) after the last reset of zoom and pan
\* (toggle_zoom, load_current_file).
C3_DragOriginRecordedAfterReset ==
    (last_event.name = "on_left_drag" /\ last_event.acted)
        => ~history.origin_stale

\* on_left_drag wrote a pan computed from a non-zero pan recorded before the
\* last reset
C3_StalePanReappears ==
    /\ last_event.name = "on_left_drag"
    /\ last_event.acted
    /\ history.origin_stale
    /\ state.drag_start_pan_x # 0
    /\ state.pan_x # 0

\* C4 (SpecView): on_z_change, on_t_change, _safe_change_z and
\* _safe_change_t leave zoom_factor, pan_x, pan_y, zoom_enabled, the current
\* file index and the loaded volume as they were.
C4_SliceChangeKeepsView ==
    [][last_event'.name \in SliceHandlers
          => /\ state'.zoom_factor = state.zoom_factor
             /\ state'.pan_x = state.pan_x
             /\ state'.pan_y = state.pan_y
             /\ state'.zoom_enabled = state.zoom_enabled
             /\ state'.current_file_index = state.current_file_index
             /\ state'.volume = state.volume]_vars

\* a slice handler has changed the slice of a zoomed and panned view
C4_SliceChangedInMovedView ==
    /\ last_event.name \in SliceHandlers
    /\ last_event.acted
    /\ ~last_event.exc
    /\ state.zoom_factor # ZoomUnit
    /\ state.pan_x # 0
    /\ state.pan_y # 0

\* C5 (SpecZoom): in every reachable state zoom_factor is within [0.5, 10.0],
\* 0 <= z_index <= z_max - 1, 0 <= t_index <= t_max - 1 and
\* 0 <= current_file_index <= len(file_paths) - 1.
C5_RangesHold ==
    /\ ZoomMin <= state.zoom_factor
    /\ state.zoom_factor <= ZoomMax
    /\ 0 <= state.z_index
    /\ state.z_index <= state.z_max - 1
    /\ 0 <= state.t_index
    /\ state.t_index <= state.t_max - 1
    /\ 0 <= state.current_file_index
    /\ state.current_file_index <= NumFiles - 1

\* the wheel was turned towards zoom-in with zoom_factor already 10.0, on the
\* last slice and frame of the last file
C5_WheelAtUpperLimit ==
    /\ last_event.name \in WheelHandlers
    /\ last_event.acted
    /\ state.zoom_factor = ZoomMax
    /\ WheelStep_noclamp(state.zoom_factor, TRUE) > ZoomMax
    /\ state.z_max > 1
    /\ state.z_index = state.z_max - 1
    /\ state.t_index = state.t_max - 1
    /\ state.current_file_index = NumFiles - 1

\* the View State fields of section 3: file index, slice indices, zoom,
\* pan, label visibility, overlay alpha, outline flag, preprocessing settings
ViewState(g) ==
    <<g.state.current_file_index, g.state.z_index, g.state.t_index,
      g.state.zoom_factor, g.state.zoom_enabled, g.state.pan_x, g.state.pan_y,
      g.state.overlay_label_visible, g.state.overlay_alpha,
      g.state.overlay_outline, g.settings>>

\* C6 (SpecOverlay): a redraw, display_current_slice run in any reachable
\* state, leaves every View State field with the value it had.
C6_RedrawKeepsViewState ==
    ViewState(display_current_slice(World)) = ViewState(World)

\* the scheduled redraw has drawn a zoomed, panned, colormapped frame with
\* an overlay whose size mismatch it warned about
C6_RedrawOfMovedOverlay ==
    /\ last_event.name = "do_redraw"
    /\ ~last_event.exc
    /\ ui.image.shown = "image"
    /\ ui.image.overlay # "none"
    /\ ui.image.zoomed
    /\ ui.image.pan_x # 0
    /\ ui.image.colored
    /\ state.overlay_warned_mismatch
    /\ state.z_index > 0

\* the loader raised or gave no array
FailedOutcome(o) ==
    \/ o.file_type = "None"
    \/ o.file_type = "DICOM" /\ o.raises /\ o.single_raises
    \/ o.file_type \in {"NIfTI", "JPEG/PNG", "TIFF", "WHOLESLIDE"} /\ o.raises

\* C7 (SpecReload): a load that fails (the loader raises or gives no array)
\* leaves the volume, current_file_type, the z/t extents and indices, zoom
\* and pan as they were, and the frame that was displayed stays displayed.
C7_FailedLoadKeepsViewAndFrame ==
    [][(last_event'.name \in LoadHandlers /\ FailedOutcome(last_event'.o))
          => /\ state'.volume = state.volume
             /\ state'.current_file_type = state.current_file_type
             /\ state'.z_max = state.z_max
             /\ state'.t_max = state.t_max
             /\ state'.z_index = state.z_index
             /\ state'.t_index = state.t_index
             /\ state'.zoom_factor = state.zoom_factor
             /\ state'.pan_x = state.pan_x
             /\ state'.pan_y = state.pan_y
             /\ ui'.image = ui.image]_vars

\* a file that gives no array was opened over a displayed, zoomed or panned
\* volume: the volume is gone and the frame is replaced by the text
C7_FailedLoadWipedView ==
    /\ last_event.name \in LoadHandlers
    /\ FailedOutcome(last_event.o)
    /\ ~last_event.exc
    /\ ~last_event.pre_neutral
    /\ state.volume.is_none
    /\ ui.image = CannotDisplay

\* C8 (Spec): the stored volume is None, an RGB raster of shape (H, W, 3) or
\* an array of exactly 4 dimensions, whatever rank the loader returned.
C8_VolumeIsNoneRgbOr4D ==
    \/ state.volume.is_none
    \/ ndim(state.volume) = 3 /\ state.volume.shape[3] = 3
    \/ ndim(state.volume) = 4

\* a 5-D array is the stored volume
C8_FiveDStored ==
    /\ last_event.name \in LoadHandlers
    /\ ~state.volume.is_none
    /\ ndim(state.volume) = 5

\* C9 (SpecOverlay): in every frame drawn with an overlay the mask is
\* cropped only if the image is, and then by the same rectangle; and the
\* two crop computations agree on every plane size at the zoom and pan of
\* the state.
C9_MaskCropEqualsImageCrop ==
    /\ (ui.image.shown = "image" /\ ui.image.overlay # "none")
          => /\ ui.image.mask_zoomed => ui.image.zoomed
             /\ ui.image.mask_zoomed => ui.image.mask_rect = ui.image.rect
    /\ \A h \in 1..FrameH, w \in 1..FrameW :
          CropRectMask(h, w, PositiveZoom(state.zoom_factor), state.pan_x, state.pan_y)
            = CropRect(h, w, PositiveZoom(state.zoom_factor), state.pan_x, state.pan_y)

\* a frame with an overlay was drawn with image and mask cropped to a
\* rectangle smaller than the plane, away from the centre
C9_CroppedOverlayFrame ==
    /\ ui.image.shown = "image"
    /\ ui.image.overlay # "none"
    /\ ui.image.zoomed
    /\ ui.image.mask_zoomed
    /\ ui.image.pan_x # 0
    /\ ui.image.rect # <<0, 0, ImgW, ImgH>>
    /\ ui.image.rect[1] = 0

\* C10 (SpecOverlay): the mask plane a redraw ends with (after rint,
\* resize_mask_nearest, apply_zoom_and_pan_mask, resize_mask_nearest) holds
\* only labels of the mask plane it started from.
C10_MaskPathKeepsLabels ==
    state.last_mask_scaled # <<>>
        => PlaneValues(state.last_mask_scaled)
             \subseteq PlaneValues(get_mask_slice(state.mask_volume, state.z_index,
                                                  state.t_index).plane)

\* the redraw of a mask with the labels 300 and -1 ended with the labels 44
\* and 255
C10_LabelsWrapped ==
    /\ state.last_mask_scaled # <<>>
    /\ state.mask_path = "small.npy"
    /\ {44, 255} \subseteq PlaneValues(state.last_mask_scaled)
    /\ 300 \notin PlaneValues(state.last_mask_scaled)

LabelHandlers == {"on_label_visibility_change", "set_all_labels", "invert_labels"}

\* the labels of the visibility dict whose flag is False
HiddenLabels(st) ==
    {l \in DOMAIN VisibleOrEmpty(st) : ~VisibleOrEmpty(st)[l]}

\* C11 (SpecMask): in the frame drawn by a label-visibility handler
\* (on_label_visibility_change, set_all_labels, invert_labels) no label whose
\* visibility flag is False is blended.
C11_HiddenLabelsNotBlended ==
    (/\ last_event.name \in LabelHandlers
     /\ ~last_event.exc
     /\ ui.image.shown = "image"
     /\ ui.image.overlay # "none")
        => ui.image.blended \cap HiddenLabels(state) = {}

\* a label check box was cleared and the frame drawn by the handler blends
\* that label
C11_HiddenLabelBlended ==
    /\ last_event.name = "on_label_visibility_change"
    /\ ~last_event.exc
    /\ ui.image.shown = "image"
    /\ ui.image.overlay = "multiclass"
    /\ state.mask_path = "labels.nii"
    /\ 1 \in ui.image.blended
    /\ HiddenLabels(state) = {1}

\* the only values of the mask are 0 and one other class
IsBinaryMask(m) == ~m.is_none /\ Cardinality(MaskLabels(m) \ {0}) = 1

\* C12 (SpecMask): a frame drawn over a binary mask is composited by the
\* binary branch (to_binary_mask, apply_overlay_to_pil).
C12_BinaryMaskTakesBinaryBranch ==
    (/\ IsBinaryMask(state.mask_volume)
     /\ ui.image.shown = "image"
     /\ ui.image.overlay # "none")
        => ui.image.overlay = "binary"

\* the mask with the values 0 and 255 was loaded and the frame was composited
\* through the per-label color map
C12_BinaryMaskThroughColorMap ==
    /\ last_event.name = "load_mask_dialog"
    /\ state.mask_path = "binary.png"
    /\ IsBinaryMask(state.mask_volume)
    /\ ui.image.shown = "image"
    /\ ui.image.overlay = "multiclass"
    /\ ui.image.blended = {255}

\* C13 (SpecMask): since the last mask load the size-mismatch warning was
\* printed at most once, whatever redraws, slice changes and file changes
\* followed; and in every frame with an overlay the mask plane, resized to
\* the image size at line 1226, has the image size, and the mask drawn has
\* the on-screen size.
C13_MismatchWarnedOnce ==
    /\ history.warnings <= 1
    /\ (ui.image.shown = "image" /\ ui.image.overlay # "none")
          => /\ PlaneW(resize_mask_nearest(
                          get_mask_slice(state.mask_volume, state.z_index,
                                         state.t_index).plane,
                          ui.image.base_wh[1], ui.image.base_wh[2]))
                    = ui.image.base_wh[1]
             /\ PlaneH(resize_mask_nearest(
                          get_mask_slice(state.mask_volume, state.z_index,
                                         state.t_index).plane,
                          ui.image.base_wh[1], ui.image.base_wh[2]))
                    = ui.image.base_wh[2]
             /\ <<PlaneW(ui.image.mask), PlaneH(ui.image.mask)>> = ui.image.scaled_wh

\* a slice change redrew the 2 x 2 mask over the larger image after the
\* warning had been printed by an earlier redraw
C13_MismatchRedrawnAfterWarning ==
    /\ last_event.name = "_safe_change_z"
    /\ last_event.acted
    /\ ~last_event.exc
    /\ state.mask_path = "small.npy"
    /\ ui.image.shown = "image"
    /\ ui.image.overlay # "none"
    /\ ui.image.base_wh = <<ImgW, ImgH>>
    /\ state.z_index > 0
    /\ state.overlay_warned_mismatch
    /\ history.warnings = 1

DetectStages(f) ==
    << [type |-> "WHOLESLIDE",
        ok |-> f.ext \in WsiSuffixes /\ f.OPENSLIDE_AVAILABLE /\ f.openslide = "ok"],
       [type |-> "DICOM", ok |-> f.dicom = "ok"],
       [type |-> "NIfTI", ok |-> f.nifti = "ok"],
       [type |-> IF f.pillow = "TIFF" THEN "TIFF" ELSE "JPEG/PNG",
        ok |-> f.pillow \in {"JPEG", "PNG", "TIFF"}],
       [type |-> "WHOLESLIDE",
        ok |-> f.OPENSLIDE_AVAILABLE /\ f.openslide_again = "ok"] >>

\* C15 (SpecCalls): detect_file_type_and_metadata does not raise; its result
\* is the type of the first stage that succeeds, in the order whole slide
\* by suffix, DICOM, NIfTI, raster, whole slide fallback, and it is None
\* with the error string when no stage succeeds.
C15_DetectFirstSucceedingStage ==
    (call.fn = "detect_file_type_and_metadata" /\ call.done)
        => /\ ~call.result.exc
           /\ \A i \in 1..5 :
                 (/\ DetectStages(call.args)[i].ok
                  /\ \A j \in 1..(i - 1) : ~DetectStages(call.args)[j].ok)
                    => call.result.file_type = DetectStages(call.args)[i].type
           /\ (\A i \in 1..5 : ~DetectStages(call.args)[i].ok)
                 => /\ call.result.file_type = "None"
                    /\ call.result.meta = "Error: Unknown or unsupported file format."

\* a file that reads as DICOM, as NIfTI and as a PNG was detected as DICOM
C15_DicomBeforeNifti ==
    /\ call.fn = "detect_file_type_and_metadata"
    /\ call.done
    /\ call.args.ext = ".dcm"
    /\ call.args.dicom = "ok"
    /\ call.args.nifti = "ok"
    /\ call.args.pillow = "PNG"
    /\ call.result.file_type = "DICOM"

\* the header h carries orientation and position
HasPosition(h) ==
    Len(h.ImagePositionPatient) = 3 /\ Len(h.ImageOrientationPatient) = 6

\* the cross product u x v and the dot product u . v
Cross(u, v) ==
    <<u[2] * v[3] - u[3] * v[2], u[3] * v[1] - u[1] * v[3], u[1] * v[2] - u[2] * v[1]>>

Dot(u, v) == u[1] * v[1] + u[2] * v[2] + u[3] * v[3]

\* the position of the slice projected on the normal, row direction x
\* column direction
Projection(h) ==
    Dot(h.ImagePositionPatient,
        Cross(SubSeq(h.ImageOrientationPatient, 1, 3),
              SubSeq(h.ImageOrientationPatient, 4, 6)))

RefReadable(d) == d.header = "ok" /\ d.files[d.ref].pixel # <<>>

\* the series identity is absent, or the scan of the folder ends with fewer
\* than 2 slices to stack
FewerThanTwoSlices(d) ==
    \/ d.SeriesInstanceUID = <<>>
    \/ /\ d.NumberOfFrames = 1
       /\ Len(LoadSlices(d.files, SortedCandidates(d.files), <<>>, <<>>).slices) < 2

\* C17 (SpecCalls): load_dicom_series_from_file of a chosen file whose
\* header and pixel data can be read does not raise, and when the series
\* identity is absent or fewer than 2 usable slices are found it returns
\* the chosen file alone, as a volume of depth 1.
C17_SeriesFallsBackToSingleFile ==
    (/\ call.fn = "load_dicom_series_from_file"
     /\ call.done
     /\ RefReadable(call.args))
        => /\ ~call.result.exc
           /\ FewerThanTwoSlices(call.args)
                 => /\ call.result.slices = <<call.args.ref>>
                    /\ call.result.shape[Len(call.result.shape)] = 1

\* the chosen file, of a series and with color pixels, is the only slice
\* found and is skipped as not 2-D: the loader raised
C17_AllSlicesSkipped ==
    /\ call.fn = "load_dicom_series_from_file"
    /\ call.done
    /\ RefReadable(call.args)
    /\ call.args.SeriesInstanceUID # <<>>
    /\ call.args.NumberOfFrames = 1
    /\ Candidates(call.args.files) = {call.args.ref}
    /\ call.args.files[call.args.ref].pixel = <<2, 2, 3>>
    /\ call.result.exc
    /\ call.result.kind = "series"

\* C18 (SpecCalls): the generic normalization of a slice gives values in
\* [0, 255]; a slice whose pixels are all equal becomes zeros; in any other
\* slice the pixels with the smallest value of the slice become 0 and the
\* pixels with the largest value of the slice become 255, whatever the
\* other slice of the volume holds.
C18_NormalizedSliceSpansRange ==
    (call.fn = "generic_normalization" /\ call.done)
        => \A x \in 1..NormW :
             /\ call.result[1][x].den > 0
             /\ 0 <= call.result[1][x].num
             /\ call.result[1][x].num <= 255 * call.result[1][x].den
             /\ (\A u \in 1..NormW :
                    call.args.vol[call.args.z_index + 1][1][u]
                      = call.args.vol[call.args.z_index + 1][1][x])
                  => call.result[1][x].num = 0
             /\ (\E u \in 1..NormW :
                    call.args.vol[call.args.z_index + 1][1][u]
                      # call.args.vol[call.args.z_index + 1][1][x])
                  => /\ (\A u \in 1..NormW :
                           call.args.vol[call.args.z_index + 1][1][x]
                             <= call.args.vol[call.args.z_index + 1][1][u])
                         => call.result[1][x].num = 0
                     /\ (\A u \in 1..NormW :
                           call.args.vol[call.args.z_index + 1][1][x]
                             >= call.args.vol[call.args.z_index + 1][1][u])
                         => call.result[1][x].num = 255 * call.result[1][x].den

\* the slice 0, 0, 1 of a volume whose other slice goes from -1 to 1 was
\* normalized to 0, 0, 255
C18_SliceOfWiderVolume ==
    /\ call.fn = "generic_normalization"
    /\ call.done
    /\ call.args.z_index = 1
    /\ PlaneValues(call.args.vol[1]) = {-1, 1}
    /\ PlaneValues(call.args.vol[2]) = {0, 1}
    /\ \A x \in 1..NormW :
          call.result[1][x].num
            = 255 * call.args.vol[2][1][x] * call.result[1][x].den

\* C19 (SpecCalls): for every center and every width of at least 1 the
\* viewer's _apply_window_level_to_8bit gives values in [0, 255], and a
\* pixel that is not smaller than another is not mapped to a smaller value.
C19_ViewerWindowInRangeAndMonotone ==
    (/\ call.fn = "_apply_window_level_to_8bit"
     /\ call.done
     /\ call.args.width >= WlUnit)
        => /\ \A i \in 1..2 :
                 /\ ~call.result[i].nan
                 /\ call.result[i].den > 0
                 /\ 0 <= call.result[i].num
                 /\ call.result[i].num <= 255 * call.result[i].den
           /\ \A i, j \in 1..2 :
                 call.args.img[i] <= call.args.img[j]
                   => call.result[i].num * call.result[j].den
                        <= call.result[j].num * call.result[i].den

\* two pixels inside a window of width 2 were mapped to two values strictly
\* between 0 and 255, the larger pixel to the larger value
C19_TwoPixelsInsideWindow ==
    /\ call.fn = "_apply_window_level_to_8bit"
    /\ call.done
    /\ call.args.width = 2 * WlUnit
    /\ call.args.img[1] < call.args.img[2]
    /\ 0 < call.result[1].num
    /\ call.result[1].num < call.result[2].num
    /\ call.result[2].num < 255 * call.result[2].den

\* C20 (SpecCalls): for every center and every width, both window/level
\* mappings (the viewer's _apply_window_level_to_8bit and
\* image_processing.apply_window_level) divide by a high - low that is
\* strictly positive and give values in [0, 255].
C20_WindowDivisorPositive ==
    (call.fn \in {"_apply_window_level_to_8bit", "apply_window_level"} /\ call.done)
        => \A i \in 1..2 :
             /\ call.result[i].divisor > 0
             /\ ~call.result[i].nan
             /\ 0 <= call.result[i].num
             /\ call.result[i].num <= 255 * call.result[i].den

\* apply_window_level with a width of exactly 1 divided by zero, and the
\* pixel equal to low came out as nan
C20_WidthOneDividesByZero ==
    /\ call.fn = "apply_window_level"
    /\ call.done
    /\ call.args.width = WlUnit
    /\ call.result[1].divisor = 0
    /\ call.result[1].nan

\* the handlers that run load_current_file, the end of create_viewer among them
OpenHandlers == LoadHandlers \cup {"startup"}

\* the file just opened is a DICOM series of modality CT whose data set
\* declares a window center and width, and load_current_file ran to its end
CtSeriesWithWindowLoaded ==
    /\ last_event.name \in OpenHandlers
    /\ last_event.acted
    /\ ~last_event.exc
    /\ last_event.o.file_type = "DICOM"
    /\ ~last_event.o.raises
    /\ last_event.o.modality = "CT"
    /\ last_event.o.window # <<>>

\* C21 (SpecWl): when load_current_file has loaded a DICOM series of modality
\* CT whose source declares a default window center and width, wl_center
\* and wl_width are the declared values and window/level is enabled.
C21_DeclaredWindowApplied ==
    CtSeriesWithWindowLoaded
        => /\ settings.wl_center = last_event.o.window[1]
           /\ settings.wl_width = last_event.o.window[2]
           /\ settings.wl_enabled

\* the CT series that declares a window was loaded and drawn, and the
\* window is still the one of construction, switched off
C21_DeclaredWindowIgnored ==
    /\ CtSeriesWithWindowLoaded
    /\ ui.image.shown = "image"
    /\ settings.wl_center = InitSettings.wl_center
    /\ settings.wl_width = InitSettings.wl_width
    /\ settings.wl_center # last_event.o.window[1]
    /\ ~settings.wl_enabled
    /\ ~ui.image.windowed

\* the array in state["volume"] was read from a DICOM file of modality CT
\* and is no RGB picture
LoadedCt ==
    /\ ~state.volume.is_none
    /\ history.loaded.file_type = "DICOM"
    /\ history.loaded.modality = "CT"
    /\ ~IsRgb(history.loaded.file_type, state.volume)

\* C22 (SpecWl): in every state after the first file load, the CT preset
\* buttons are enabled if and only if the loaded volume is a non-RGB DICOM
\* of modality CT; so a named preset is never applied to a non-CT volume.
C22_CtPresetsOnlyForCt ==
    ui.mainloop
        => /\ (ui.ct_presets = "normal") <=> LoadedCt
           /\ (last_event.name = "_apply_ct_preset") => LoadedCt

\* a named CT preset was applied while the loaded volume was a NIfTI array:
\* the buttons had stayed enabled since the CT series shown before it
C22_PresetAppliedToNifti ==
    /\ last_event.name = "_apply_ct_preset"
    /\ history.loaded.file_type = "NIfTI"
    /\ state.current_file_type = "NIfTI"
    /\ ~state.volume.is_none
    /\ ~state.is_ct
    /\ ui.ct_presets = "normal"
    /\ settings.wl_enabled

\* C23 (SpecRgb): whenever the loaded volume is an RGB raster (H, W, 3),
\* after any sequence of preset applications, auto windows, resets of the
\* preprocessing and key presses: z_max = t_max = 1, z_index = t_index = 0,
\* the Z and T sliders are hidden, the window/level controls are disabled
\* and wl_enabled is False.
C23_RgbRasterHasNoSlicesNoWindow ==
    (ui.mainloop /\ IsRgb(state.current_file_type, state.volume))
        => /\ state.z_max = 1
           /\ state.t_max = 1
           /\ state.z_index = 0
           /\ state.t_index = 0
           /\ ~ui.z_slider.mapped
           /\ ~ui.t_slider.mapped
           /\ ui.wl_controls = "disabled"
           /\ ui.ct_presets = "disabled"
           /\ ~settings.wl_enabled

\* an RGB picture is on screen after the session preset of its file, saved
\* with window/level enabled, was applied
C23_WindowedPresetAppliedToRgb ==
    /\ IsRgb(state.current_file_type, state.volume)
    /\ last_event.name = "apply_session_preset"
    /\ ~last_event.exc
    /\ ~disk.presets[state.current_file_index + 1].is_none
    /\ disk.presets[state.current_file_index + 1].preprocessing.wl_enabled
    /\ ui.image.shown = "image"
    /\ ui.image.rgb

\* the session preset stored for the file on screen
SavedPreset == disk.presets[state.current_file_index + 1]

\* a file whose session preset was saved has been opened again
ReopenedWithPreset ==
    /\ last_event.name \in LoadHandlers
    /\ last_event.acted
    /\ ~last_event.exc
    /\ ~SavedPreset.is_none

\* C26 (SpecPreset): after save_session_preset on a file and changes of the
\* settings, opening that file again restores the saved preprocessing
\* settings and the saved overlay settings used for rendering: overlay
\* enabled, overlay alpha, outline flag, mask path, label visibility map.
C26_PresetRoundTrip ==
    ReopenedWithPreset
        => /\ settings = SavedPreset.preprocessing
           /\ state.overlay_enabled = SavedPreset.overlay.overlay_enabled
           /\ state.overlay_alpha = SavedPreset.overlay.overlay_alpha
           /\ state.overlay_outline = SavedPreset.overlay.overlay_outline
           /\ state.mask_path = SavedPreset.overlay.mask_path
           /\ \/ SavedPreset.overlay.label_visible.is_none
                  /\ state.overlay_label_visible.is_none
              \/ ~SavedPreset.overlay.label_visible.is_none
                  /\ state.overlay_label_visible
                        = IntMap(SavedPreset.overlay.label_visible)

\* the file was opened again with its mask and the overlay drawn, and the
\* overlay was blended with the alpha set after the preset was saved, not
\* with the saved one
C26_SavedAlphaNotRestored ==
    /\ ReopenedWithPreset
    /\ SavedPreset.overlay.mask_path = "binary.png"
    /\ state.mask_path = "binary.png"
    /\ SavedPreset.overlay.overlay_enabled
    /\ ui.image.shown = "image"
    /\ ui.image.overlay # "none"
    /\ SavedPreset.overlay.overlay_alpha = InitState.overlay_alpha
    /\ state.overlay_alpha \in Alphas
    /\ ui.image.alpha = state.overlay_alpha
    /\ ui.alpha_var = state.overlay_alpha

---------------------------------------------------------------------------
(* C30 *)

ViewHandlersGuardedByZoom ==
    {"on_mouse_wheel", "scroll_zoom", "on_left_down", "on_left_drag"}

\* C30: in every state of the viewer, zoom disabled implies zoom_factor 1.0
\* and pan (0, 0); a wheel or drag event that arrives while zoom is
\* disabled returns early, and the handler that disables zoom resets both
C30_DisabledZoomIsNeutral ==
    /\ ~state.zoom_enabled => Neutral(state)
    /\ (last_event.name \in ViewHandlersGuardedByZoom /\ ~state.zoom_enabled)
          => ~last_event.acted
    /\ (last_event.name = "toggle_zoom" /\ ~state.zoom_enabled)
          => Neutral(state)

\* the wheel was turned while zoom was disabled and nothing moved
C30_WheelIgnoredWhileDisabled ==
    /\ ui.mainloop
    /\ last_event.name = "on_mouse_wheel"
    /\ ~last_event.acted
    /\ ~state.zoom_enabled
    /\ Neutral(state)

---------------------------------------------------------------------------
(* C24 *)

PipelineOrder == <<"hist_eq", "brightness_contrast", "colormap", "zoom_pan">>

ThreeChannels(shape) == Len(shape) = 3 /\ shape[3] = 3

\* the flag of a step is set in the arguments a, and the step is not one
\* that skips a frame of three channels
StepEnabled(a, name) ==
    CASE name = "hist_eq" -> a.hist_eq /\ ~ThreeChannels(a.shape)
      [] name = "brightness_contrast" -> a.brightness_contrast
      [] name = "colormap" -> a.colormap /\ ~ThreeChannels(a.shape)
      [] name = "zoom_pan" -> a.zoom_enabled

\* C24: for every combination of the four flags apply_all_processing runs
\* exactly the enabled steps, in the order histogram equalization,
\* brightness/contrast, colormap, zoom and pan; an RGB frame is neither
\* equalized nor colormapped and keeps its shape
C24_EnabledStepsInFixedOrder ==
    (call.fn = "apply_all_processing" /\ call.done) =>
        /\ call.result.steps
              = SelectSeq(PipelineOrder, LAMBDA name : StepEnabled(call.args, name))
        /\ ThreeChannels(call.args.shape) =>
              /\ ~call.result.equalized
              /\ ~call.result.colored
              /\ call.result.shape = call.args.shape

\* a slice went through all four steps, in order
C24_AllFourStepsRan ==
    /\ call.fn = "apply_all_processing"
    /\ call.done
    /\ call.args.shape = <<ImgH, ImgW>>
    /\ call.args.hist_eq /\ call.args.brightness_contrast
    /\ call.args.colormap /\ call.args.zoom_enabled
    /\ call.result.steps = PipelineOrder
    /\ call.result.shape = <<ImgH, ImgW, 3>>

---------------------------------------------------------------------------
(* C25 *)

\* C25: for every frame size, every zoom factor in [0.5, 10.0] other than
\* 1.0 and every pan, the crop rectangle of apply_zoom_and_pan lies inside
\* the frame (0 <= x1 < x2 <= w, 0 <= y1 < y2 <= h) and has exactly the
\* size clamp(round(w / zoom), 1, w) by clamp(round(h / zoom), 1, h)
C25_CropRectInsideAndFullSize ==
    (call.fn = "apply_zoom_and_pan" /\ call.done) =>
        LET h == call.args.shape[1]
            w == call.args.shape[2]
            r == call.result.rect
        IN  /\ call.result.zoomed
            /\ 0 <= r[1] /\ r[1] < r[3] /\ r[3] <= w
            /\ 0 <= r[2] /\ r[2] < r[4] /\ r[4] <= h
            /\ r[3] - r[1] = Clip(RoundHalfEven(w * ZoomUnit, call.args.zoom_factor), 1, w)
            /\ r[4] - r[2] = Clip(RoundHalfEven(h * ZoomUnit, call.args.zoom_factor), 1, h)

\* a rectangle narrower than the frame whose centre was panned past the
\* right and bottom edges was shifted back against them
C25_ShiftedAgainstTheEdge ==
    /\ call.fn = "apply_zoom_and_pan"
    /\ call.done
    /\ call.args.shape = <<MaxSide, MaxSide>>
    /\ call.args.pan_x = CallPan * PanUnit
    /\ call.args.pan_y = CallPan * PanUnit
    /\ call.result.rect[3] = MaxSide
    /\ call.result.rect[4] = MaxSide
    /\ call.result.rect[1] > 0
    /\ call.result.rect[3] - call.result.rect[1] > 1

---------------------------------------------------------------------------
(* C27 *)

\* C27: load_dicom_auto returns the result of load_dicom_series_from_file
\* when the series load succeeds, and the result of load_dicom only when
\* the series load fails
C27_SeriesFirstThenSingleFile ==
    (call.fn = "load_dicom_auto" /\ call.done) =>
        IF load_dicom_series_from_file(call.args).exc
        THEN call.result.via = "load_dicom"
        ELSE /\ call.result.via = "load_dicom_series_from_file"
             /\ call.result.shape = load_dicom_series_from_file(call.args).shape

\* a folder whose series loads as a stack of SeriesLen slices was read as
\* the chosen file alone
C27_SeriesNeverTried ==
    /\ call.fn = "load_dicom_auto"
    /\ call.done
    /\ ~load_dicom_series_from_file(call.args).exc
    /\ load_dicom_series_from_file(call.args).kind = "series"
    /\ load_dicom_series_from_file(call.args).shape = <<2, 2, SeriesLen>>
    /\ ~call.result.exc
    /\ call.result.via = "load_dicom"
    /\ call.result.shape = <<2, 2>>

---------------------------------------------------------------------------
(* C29 *)

\* C29: every value of the array load_dicom returns lies in [0, 255],
\* whatever the pixel array, a constant one with a value outside [0, 255]
\* included
C29_ValuesWithinByteRange ==
    (call.fn = "load_dicom" /\ call.done) =>
        \A i \in 1..Len(call.result) :
            /\ 0 <= call.result[i].num
            /\ call.result[i].num <= 255 * call.result[i].den

\* a constant array above 255 came back as it was read
C29_ConstantArrayUnscaled ==
    /\ call.fn = "load_dicom"
    /\ call.done
    /\ \A i \in 1..RawLen : call.args[i] = MaxRaw
    /\ \A i \in 1..RawLen : call.result[i] = [num |-> MaxRaw, den |-> 1]

---------------------------------------------------------------------------
(* C28 *)

\* C28: in the MultiSliceTimeLogic controller, after any sequence of
\* change_file, load_current_file, toggle_zoom and on_wheel_zoom calls, a
\* load_current_file that follows a file change leaves zoom_factor 1.0,
\* and toggle_zoom(False) leaves zoom_factor 1.0
C28_LogicZoomResetOnLoadAndDisable ==
    /\ (last_event.name = "Logic_load_current_file" /\ logic.after_change)
          => logic.self.zoom_factor = ZoomUnit
    /\ (last_event.name = "Logic_toggle_zoom" /\ ~logic.self.zoom_enabled)
          => logic.self.zoom_factor = ZoomUnit

\* the file was changed and loaded without an exception while zoom was
\* disabled, and the zoom factor of the earlier wheel steps is still there
C28_LogicZoomSurvives ==
    /\ last_event.name = "Logic_load_current_file"
    /\ ~last_event.exc
    /\ logic.after_change
    /\ logic.self.volume # <<>>
    /\ ~logic.self.zoom_enabled
    /\ logic.self.zoom_factor > ZoomUnit

=============================================================================
